---------------------------- MODULE Spec2Model ----------------------------
(***************************************************************************)
(* Repository -> knowledge-graph pipeline (src/repo_to_neo4j.py).          *)
(*                                                                         *)
(* Part I   Graph Loader: load_to_neo4j and Neo4jRepositoryLoader, run     *)
(*          against a graph store that executes every submitted statement  *)
(*          as one transaction.                                            *)
(* Part II  Tree Extractor and analysis loop: ComprehensiveExtractor walks *)
(*          one unit's syntax tree, one visit_* call per step;             *)
(*          analyze_repository runs it over the units and appends what it  *)
(*          returns to the record files.                                   *)
(***************************************************************************)
EXTENDS Integers, Sequences, FiniteSets, TLC

\* ------------------------------------------------------------------ bounds
MaxNodes == 2      \* longest nodes.jsonl (lines)
MaxEdges == 2      \* longest edges.jsonl (lines)
MaxBatch == 2      \* largest batch_size
MaxLoads == 2      \* invocations of load_to_neo4j in one behaviour
MaxStmts == 3      \* most syntax-tree nodes of a unit (ExtractSpec)
MaxFiles == 2      \* most source units of a repository (AnalyzeSpec)
MaxDirs == 2       \* most directories below the root (WalkSpec)
MaxRuns == 2        \* invocations of analyze_repository in one behaviour
MaxRecords == 2     \* records handed to write_jsonl in one call
MaxParts == 2       \* parts handed to stable_id in one call
MaxAround == 1      \* nodes of a unit in front of the statements of interest
MaxImports == 3     \* nodes of a unit made of imports and calls
MaxBody == 3        \* statements and boolean expressions in a function body
MaxClasses == 3     \* nodes of a unit made of class and function definitions

\* ----------------------------------------------------------------- helpers
Min(a, b) == IF a < b THEN a ELSE b

SeqsUpTo(S, n) == UNION {[1..k -> S] : k \in 0..n}

Range(s) == {s[i] : i \in 1..Len(s)}

\* -------------------------------------------------------------- data model
Answers == {"yes", "no"}          \* what the operator types at a prompt
NoId == "-"                       \* an absent to_id (the edge carries to_name only)
NodeIds == {"n1", "n2"}
NodeKinds == {"File", "Class"}    \* the kinds the bounded record files use
EdgeKinds == {"CALLS", "DEFINES"}

\* A line of nodes.jsonl.  form: "ok" a JSON object with a 'type' field,
\* "notype" a JSON object without one, "garbled" text json.loads rejects,
\* "blank" whitespace only.  bad: the record holds a property value the store
\* refuses (the statement that carries it fails).
NodeLines ==
  [form : {"ok"}, kind : NodeKinds, id : NodeIds, bad : BOOLEAN]
    \cup [form : {"notype"}, kind : {"File"}, id : {"n1"}, bad : {FALSE}]
    \cup [form : {"garbled", "blank"}, kind : {"File"}, id : {"n1"}, bad : {FALSE}]

\* A line of edges.jsonl: always a JSON object with 'type' and 'from_id'.
EdgeLines == [type : EdgeKinds, from_id : NodeIds, to_id : NodeIds \cup {NoId}]

VARIABLES
  nodesFile,          \* nodes.jsonl, a sequence of lines
  edgesFile,          \* edges.jsonl
  link,               \* the network path to the store: "up" | "down"
  conn,               \* the loader's driver: "none" | "open" | "closed"
  storeNodes,         \* the store's entities, in creation order: [kind, id]
  storeRels,          \* the store's relationships: [type, from, to, edge]
  constraints,        \* kinds whose id carries a uniqueness constraint
  pc,                 \* position inside load_to_neo4j
  success,            \* what load_to_neo4j returned: "none" | "true" | "false"
  error,              \* the exception load_to_neo4j caught: its class, and the
                      \* step that raised it (the traceback it prints)
  force_clear,        \* load_to_neo4j's parameter
  clear,              \* the answer read at 'Clear database before loading?'
  batch_size,         \* batch_insert_nodes / batch_insert_edges parameter
  nodes,              \* load_jsonl(nodes_path)
  edges,              \* load_jsonl(edges_path)
  nk, ni,             \* batch_insert_nodes: index into type_order, offset i
  nodes_inserted,     \* total_inserted of batch_insert_nodes
  ek, ei,             \* batch_insert_edges: index into the sorted types, offset i
  edges_inserted,     \* total_inserted of batch_insert_edges
  skipped_external,   \* skipped_external of batch_insert_edges
  loads,              \* how many times load_to_neo4j was entered
  cleared,            \* clear_database ran in this invocation
  preStore,           \* history: storeNodes when batch_insert_nodes was entered
  insertedRecs,       \* history: indices of the node records whose CREATE committed
  submitted           \* history: indices of the edge records sent to the store

loaderVars ==
  <<nodesFile, edgesFile, link, conn, storeNodes, storeRels, constraints, pc,
    success, error, force_clear, clear, batch_size, nodes, edges, nk, ni,
    nodes_inserted, ek, ei, edges_inserted, skipped_external, loads, cleared,
    preStore, insertedRecs, submitted>>

VARIABLES
  fs,                    \* the repository on disk: its directories in os.walk order
  exclude,               \* analyze_repository's parameter exclude
  clean,                 \* analyze_repository's parameter clean
  use_existing,          \* the answer read at 'Use existing files?'
  outFiles,              \* which of nodes.jsonl, edges.jsonl, stats.json exist
  prior,                 \* history: the output directory when the run began
  runs,                  \* how many times analyze_repository was entered
  py_files,              \* the units find_python_files returned: [path, text, tree]
  apc,                   \* position inside analyze_repository
  analyzed,              \* what analyze_repository returned: "none" | "true" | "false"
  fidx,                  \* the per-file loop's index into py_files
  errors,                \* errors of analyze_repository
  total_stats,           \* total_stats of analyze_repository
  final_stats,           \* the statistics summary written to stats.json
  x_nodes,               \* extractor.nodes, then the loop's nodes
  x_edges,               \* extractor.edges, then the loop's edges
  stats,                 \* extractor.stats, then the loop's stats
  current_scope_stack,   \* extractor.current_scope_stack
  current_function,      \* extractor.current_function (an id, or None)
  current_class,         \* extractor.current_class (a name, or None)
  imports_map,           \* extractor.imports_map
  defined_names,         \* extractor.defined_names
  pos,                   \* the next tree node NodeVisitor.visit is called on
  frames,                \* the visit_ClassDef / visit_*FunctionDef calls in progress
  raised,                \* an exception left extractor.visit(tree)
  x_seen,                \* history: len(extractor.nodes) when each edge was appended
  contrib                \* history: records each unit added to the record files

runVars == <<fs, exclude, clean, use_existing, prior, runs>>

analyzeVars ==
  <<runVars, outFiles, py_files, apc, analyzed, fidx, errors, total_stats,
    final_stats, contrib>>

extractorVars ==
  <<x_nodes, x_edges, stats, current_scope_stack, current_function, current_class,
    imports_map, defined_names, pos, frames, raised, x_seen>>

vars == <<loaderVars, analyzeVars, extractorVars>>

\* ------------------------------------------------------------------- store
ConstraintKindsNone == {}

\* create_constraints_and_indexes: the ten kinds given a uniqueness constraint.
ConstraintKinds ==
  {"Repository", "Directory", "File", "Class", "Function", "Method",
   "Variable", "Parameter", "Import", "Decorator"}

\* batch_insert_nodes: type_order.
type_order ==
  <<"Repository", "Directory", "File", "Module", "Class", "Function", "Method",
    "Variable", "Parameter", "Decorator", "Import">>

\* sorted(edges_by_type.keys()) ranges over the EdgeType values in this order.
edge_order ==
  <<"CALLS", "CONTAINS", "DECORATES", "DEFINES", "HAS_PARAMETER", "IMPORTS",
    "INHERITS", "RAISES", "RETURNS", "USES">>

CountOf(st, kind, id) ==
  Cardinality({e \in 1..Len(st) : st[e].kind = kind /\ st[e].id = id})

\* The store refuses CREATE (n:kind {id}) when a constraint on kind is in force
\* and an entity of that kind already carries the id.
Violates(st, cons, kind, id) == kind \in cons /\ CountOf(st, kind, id) > 0

\* CREATE CONSTRAINT ... IF NOT EXISTS: refused while the data already breaks it.
CanConstrain(st, kind) ==
  \A e1, e2 \in 1..Len(st) :
    (st[e1].kind = kind /\ st[e2].kind = kind /\ st[e1].id = st[e2].id) => e1 = e2

\* session.run(query, batch=recs) of the node query, one transaction:
\* UNWIND recs, CREATE each; any refusal rolls the whole statement back.
RECURSIVE CreateAll(_, _, _, _)
CreateAll(st, cons, kind, recs) ==
  IF recs = <<>> THEN [ok |-> TRUE, st |-> st]
  ELSE LET r == nodes[Head(recs)] IN
       IF r.bad \/ Violates(st, cons, kind, r.id)
       THEN [ok |-> FALSE, st |-> st]
       ELSE CreateAll(Append(st, [kind |-> kind, id |-> r.id]), cons, kind, Tail(recs))

RunCreate(st, cons, kind, recs) ==
  IF link = "down" THEN [ok |-> FALSE, st |-> st]
  ELSE LET r == CreateAll(st, cons, kind, recs) IN
       IF r.ok THEN r ELSE [ok |-> FALSE, st |-> st]

\* The relationships one edge record creates: one per pair of entities matched by
\* MATCH (from {id: edge.from}) MATCH (to {id: edge.to}).
RelsOfEdge(st, i) ==
  LET e == edges[i]
      F == {p \in 1..Len(st) : st[p].id = e.from_id}
      T == {p \in 1..Len(st) : e.to_id # NoId /\ st[p].id = e.to_id}
  IN  {[type |-> e.type, from |-> f, to |-> t, edge |-> i] : f \in F, t \in T}

RECURSIVE SetToSeq(_)
SetToSeq(S) ==
  IF S = {} THEN <<>>
  ELSE LET x == CHOOSE y \in S : TRUE IN <<x>> \o SetToSeq(S \ {x})


\* --------------------------------------------------------------- load_jsonl
\* load_jsonl: blank lines are skipped, every other line goes through json.loads.
LoadItems(file) == SelectSeq(file, LAMBDA l : l.form # "blank")

Undecodable(file) == \E i \in 1..Len(file) : file[i].form = "garbled"

\* ------------------------------------------------------- batch_insert_nodes
\* nodes_by_type[kind], as the indices (into nodes) of its records, in file order.
RECURSIVE NodesByType(_, _, _)
NodesByType(ns, kind, i) ==
  IF i > Len(ns) THEN <<>>
  ELSE (IF ns[i].kind = kind THEN <<i>> ELSE <<>>) \o NodesByType(ns, kind, i + 1)

TypeNodes(kind) == NodesByType(nodes, kind, 1)

\* The first kind of type_order, from position k on, that has records.
RECURSIVE NextKind(_)
NextKind(k) ==
  IF k > Len(type_order) THEN k
  ELSE IF TypeNodes(type_order[k]) # <<>> THEN k ELSE NextKind(k + 1)

\* The except branch: every record of the failed batch submitted alone.
RECURSIVE InsertSingles(_, _, _, _)
InsertSingles(st, cons, kind, recs) ==
  IF recs = <<>> THEN [st |-> st, ins |-> <<>>]
  ELSE LET r == RunCreate(st, cons, kind, <<Head(recs)>>)
           rest == InsertSingles(r.st, cons, kind, Tail(recs))
       IN  [st |-> rest.st,
            ins |-> (IF r.ok THEN <<Head(recs)>> ELSE <<>>) \o rest.ins]

InsertNodeBatchNoRetry(st, cons, kind, batch) ==
  LET r == RunCreate(st, cons, kind, batch) IN
  IF r.ok THEN [st |-> r.st, n |-> Len(batch), ins |-> batch]
  ELSE [st |-> st, n |-> 0, ins |-> <<>>]

\* try: session.run(query, batch); total += len(batch)
\* except: for single_node in batch: try run([single_node]); total += 1
InsertNodeBatch(st, cons, kind, batch) ==
  LET r == RunCreate(st, cons, kind, batch) IN
  IF r.ok THEN [st |-> r.st, n |-> Len(batch), ins |-> batch]
  ELSE LET s == InsertSingles(st, cons, kind, batch)
       IN  [st |-> s.st, n |-> Len(s.ins), ins |-> s.ins]

\* ------------------------------------------------------- batch_insert_edges
RECURSIVE EdgesByType(_, _, _)
EdgesByType(es, type, i) ==
  IF i > Len(es) THEN <<>>
  ELSE (IF es[i].type = type THEN <<i>> ELSE <<>>) \o EdgesByType(es, type, i + 1)

TypeEdges(type) == EdgesByType(edges, type, 1)

DirectEdgesAll(type) == TypeEdges(type)

\* direct = [e for e in type_edges if 'to_id' in e or 'to' in e]
DirectEdges(type) == SelectSeq(TypeEdges(type), LAMBDA i : edges[i].to_id # NoId)

RECURSIVE NextEdgeType(_)
NextEdgeType(k) ==
  IF k > Len(edge_order) THEN k
  ELSE IF TypeEdges(edge_order[k]) # <<>> THEN k ELSE NextEdgeType(k + 1)

\* session.run(query, batch) of the relationship query and result.consume():
\* the relationships created, in record order.
RECURSIVE CreateRels(_, _)
CreateRels(st, recs) ==
  IF recs = <<>> THEN <<>>
  ELSE SetToSeq(RelsOfEdge(st, Head(recs))) \o CreateRels(st, Tail(recs))

\* try the batch; on an exception try every edge alone.  A statement fails only
\* when the store cannot be reached, and then the single ones fail as well.
InsertEdgeBatch(st, batch) ==
  IF link = "down" THEN <<>> ELSE CreateRels(st, batch)

\* -------------------------------------------------------- identity service
\* Text is a sequence of tokens; None is the empty sequence.
None == <<>>

Str(x) == <<x>>

Num(n) == <<ToString(n)>>

\* "::".join(str(p) for p in parts)
RECURSIVE JoinParts(_)
JoinParts(parts) ==
  IF parts = <<>> THEN <<>>
  ELSE IF Len(parts) = 1 THEN parts[1]
  ELSE parts[1] \o <<":", ":">> \o JoinParts(Tail(parts))

\* hashlib.sha1(s).hexdigest(): one digest per text (no collisions).
sha1_hex(s) == <<"sha1(">> \o s \o <<")">>

stable_id(parts) == sha1_hex(JoinParts(parts))

\* ------------------------------------------------------------ syntax trees
\* A unit's tree is the sequence of its nodes in the order NodeVisitor reaches
\* them (depth first, pre-order); d is the nesting depth of a node, 1 for the
\* statements of the module body.  Node i starts on line LineOf(i); a decorator
\* stands on a line of its own above the def (dec.lineno < node.lineno).
LineOf(i) == 3 * i

DecoLine(i, j) == 3 * i - 3 + j

ClassDef(name, bases) == [k |-> "ClassDef", d |-> 1, name |-> name, bases |-> bases]

\* params: node.args.args, the names of the positional parameters; defaults:
\* node.args.defaults, the default expressions of the last of them.
FunctionDef(name, params, decorators) ==
  [k |-> "FunctionDef", d |-> 1, name |-> name, params |-> params,
   defaults |-> <<>>, decorators |-> decorators]

AsyncFunctionDef(name, params, decorators) ==
  [k |-> "AsyncFunctionDef", d |-> 1, name |-> name, params |-> params,
   defaults |-> <<>>, decorators |-> decorators]

WithDefaults(fn, defaults) == [fn EXCEPT !.defaults = defaults]

\* value: "const" a literal, "huge" an integer literal str() refuses to render
\* (more than 4300 digits), "expr" any other expression.
\* chained: the further targets of a chained assignment (x = y = 1).
Assign(target, value) ==
  [k |-> "Assign", d |-> 1, target |-> target, value |-> value, chained |-> <<>>]

AssignChain(targets, value) ==
  [Assign(Head(targets), value) EXCEPT !.chained = Tail(targets)]

\* node.targets
Targets(node) == <<node.target>> \o node.chained

\* callee: the dotted chain of the called name, e.g. <<"p", "join">>.
Call(callee) == [k |-> "Call", d |-> 1, callee |-> callee]

\* value / exc: the expression's tokens as the source spells them, None when
\* absent.
Return(value) == [k |-> "Return", d |-> 1, value |-> value]

Raise_(exc) == [k |-> "Raise", d |-> 1, exc |-> exc]

Import(name, asname) == [k |-> "Import", d |-> 1, name |-> name, asname |-> asname]

ImportFrom(module, name, asname) ==
  [k |-> "ImportFrom", d |-> 1, module |-> module, name |-> name, asname |-> asname]

DefKinds == {"ClassDef", "FunctionDef", "AsyncFunctionDef"}

FunctionKinds == {"FunctionDef", "AsyncFunctionDef"}

\* The depths the node after tree t may have: it is nested one deeper than its
\* predecessor only when the predecessor is a definition (the only compound
\* statements here).
ValidDepths(t) ==
  IF t = <<>> THEN {1}
  ELSE 1..(t[Len(t)].d + (IF t[Len(t)].k \in DefKinds THEN 1 ELSE 0))

RECURSIVE TreesOfLen(_, _)
TreesOfLen(stmts, m) ==
  IF m = 0 THEN {<<>>}
  ELSE UNION {{Append(t, [st EXCEPT !.d = dd]) : st \in stmts, dd \in ValidDepths(t)}
                : t \in TreesOfLen(stmts, m - 1)}

\* Every tree of at most n nodes over the given statements.
TreesOver(stmts, n) == UNION {TreesOfLen(stmts, m) : m \in 0..n}

\* A unit: where it is, whether its text decodes and parses, and its tree.
\* text: "ok" | "undecodable" (read_text raises) | "syntax" (ast.parse raises).
UnitAt(n, text, tree) ==
  [name |-> <<"u", ToString(n), ".py">>, text |-> text, tree |-> tree]

\* -------------------------------------------------- ComprehensiveExtractor
NoStats ==
  [functions |-> 0, classes |-> 0, methods |-> 0, imports |-> 0, calls |-> 0,
   variables |-> 0, decorators |-> 0]

StatKeys == DOMAIN NoStats

EmptyMap == [x \in {} |-> None]

Put(map, key, val) == [x \in DOMAIN map \cup {key} |-> IF x = key THEN val ELSE map[x]]

Bump(st, key) == [st EXCEPT ![key] = @ + 1]

BumpBy(st, key, n) == [st EXCEPT ![key] = @ + n]

\* self.current_class = None
NoClass == ""

\* self.file_id = stable_id(str(self.file_path))
FileId(unit) == stable_id(<<unit.path>>)

\* Mutant of GetCurrentScope: the File node whatever the stack holds.
GetCurrentScopeFile(stack, file_id) == file_id

\* _get_current_scope
GetCurrentScope(stack, file_id) ==
  IF stack # <<>> THEN stack[Len(stack)] ELSE file_id

\* record_file_node: the File node.
RecordFileNode(unit) ==
  [id |-> FileId(unit), type |-> "File", name |-> unit.path, lineno |-> 0]

\* What a visit_* call appends, in order: nodes (n) and edges (e).
EmitN(rec) == [n |-> TRUE, rec |-> rec]

EmitE(rec) == [n |-> FALSE, rec |-> rec]

RECURSIVE NodesIn(_)
NodesIn(em) ==
  IF em = <<>> THEN <<>>
  ELSE (IF Head(em).n THEN <<Head(em).rec>> ELSE <<>>) \o NodesIn(Tail(em))

RECURSIVE EdgesIn(_)
EdgesIn(em) ==
  IF em = <<>> THEN <<>>
  ELSE (IF Head(em).n THEN <<>> ELSE <<Head(em).rec>>) \o EdgesIn(Tail(em))

\* len(self.nodes) at the moment each edge of em is appended, c nodes being there.
RECURSIVE SeenIn(_, _)
SeenIn(em, c) ==
  IF em = <<>> THEN <<>>
  ELSE IF Head(em).n THEN SeenIn(Tail(em), c + 1)
  ELSE <<c>> \o SeenIn(Tail(em), c)

Edge(type, from_id, to_id, to_name) ==
  [type |-> type, from_id |-> from_id, to_id |-> to_id, to_name |-> to_name]

RECURSIVE Flatten(_)
Flatten(ss) == IF ss = <<>> THEN <<>> ELSE Head(ss) \o Flatten(Tail(ss))

FunctionId(unit, i, node) ==
  stable_id(<<FileId(unit), Str("function"), Str(node.name), Num(LineOf(i))>>)

\* class_id = stable_id(self.file_path, "class", node.name, str(node.lineno))
ClassId(unit, i, node) ==
  stable_id(<<unit.path, Str("class"), Str(node.name), Num(LineOf(i))>>)

ClassScopeViaFileId(unit, i, node) ==
  stable_id(<<FileId(unit), Str("class"), Str(node.name), Num(LineOf(i))>>)

\* The id visit_ClassDef pushes on the scope stack.
ClassScope(unit, i, node) == ClassId(unit, i, node)

\* _extract_decorators: one Decorator node per named decorator, its id built from
\* the decorator's own line.
DecoratorEmits(unit, i, node) ==
  Flatten([j \in 1..Len(node.decorators) |->
    IF node.decorators[j] # ""
    THEN <<EmitN([id |-> stable_id(<<FileId(unit), Str("decorator"),
                                     Str(node.decorators[j]), Num(DecoLine(i, j))>>),
                  type |-> "Decorator",
                  name |-> Str(node.decorators[j]),
                  lineno |-> DecoLine(i, j)])>>
    ELSE <<>>])

BinaryOperators == {"+", "-", "*"}

\* _safe_unparse: ast.unparse renders a binary operator with a space on each
\* side, whatever the source's spacing (the texts here are shorter than the 200
\* characters it keeps).
RECURSIVE _safe_unparse(_)
_safe_unparse(expr) ==
  IF expr = <<>> THEN <<>>
  ELSE (IF Head(expr) \in BinaryOperators
        THEN <<" ", Head(expr), " ">>
        ELSE <<Head(expr)>>) \o _safe_unparse(Tail(expr))

\* Mutant of _extract_parameters: the defaults are given to the first
\* parameters instead of the last.
ExtractParametersFromLeft(node) ==
  [i \in 1..Len(node.params) |->
     [name |-> Str(node.params[i]),
      kind |-> "positional",
      default |-> IF i <= Len(node.defaults)
                  THEN _safe_unparse(node.defaults[i]) ELSE None,
      position |-> i - 1]]

\* _extract_parameters over node.args.args: positions count from 0 and the
\* defaults belong to the last len(defaults) parameters.
_extract_parameters(node) ==
  LET defaults_offset == Len(node.params) - Len(node.defaults) IN
    [i \in 1..Len(node.params) |->
       [name |-> Str(node.params[i]),
        kind |-> "positional",
        default |-> IF i - 1 >= defaults_offset
                    THEN _safe_unparse(node.defaults[i - defaults_offset])
                    ELSE None,
        position |-> i - 1]]

\* _record_function, after _extract_decorators: the node, the Defines edge, a
\* Parameter node and a HasParameter edge per parameter, then a Decorates edge per
\* named decorator, its from_id built from the function's line.
RecordFunctionEmits(unit, i, node, is_method, parent_scope) ==
  LET fn_id == FunctionId(unit, i, node)
      parameters == _extract_parameters(node)
  IN
    <<EmitN([id |-> fn_id,
             type |-> IF is_method THEN "Method" ELSE "Function",
             name |-> Str(node.name),
             lineno |-> LineOf(i)]),
      EmitE(Edge("DEFINES", parent_scope, fn_id, None))>>
    \o Flatten([j \in 1..Len(parameters) |->
         LET param == parameters[j]
             param_id == stable_id(<<fn_id, Str("param"), param.name>>)
         IN
           <<EmitN([id |-> param_id, type |-> "Parameter",
                    name |-> param.name, lineno |-> 0,
                    kind |-> param.kind, default |-> param.default,
                    position |-> param.position]),
             EmitE(Edge("HAS_PARAMETER", fn_id, param_id, None))>>])
    \o Flatten([j \in 1..Len(node.decorators) |->
         IF node.decorators[j] # ""
         THEN <<EmitE(Edge("DECORATES",
                           stable_id(<<FileId(unit), Str("decorator"),
                                       Str(node.decorators[j]), Num(LineOf(i))>>),
                           fn_id, None))>>
         ELSE <<>>])

\* visit_ClassDef up to generic_visit; names is defined_names with the class
\* already entered (line 545 runs before the bases are looked up).
ClassEmits(unit, i, node, parent_scope, names) ==
  LET class_id == ClassId(unit, i, node) IN
    <<EmitN([id |-> class_id, type |-> "Class", name |-> Str(node.name),
             lineno |-> LineOf(i)]),
      EmitE(Edge("DEFINES", parent_scope, class_id, None))>>
    \o [j \in 1..Len(node.bases) |->
         IF node.bases[j] \in DOMAIN names
         THEN EmitE(Edge("INHERITS", class_id, names[node.bases[j]], None))
         ELSE EmitE(Edge("INHERITS", class_id, None, Str(node.bases[j])))]

\* The callee's text: the chain joined by dots.
RECURSIVE Dotted(_)
Dotted(chain) ==
  IF chain = <<>> THEN <<>>
  ELSE IF Len(chain) = 1 THEN Str(chain[1])
  ELSE Str(chain[1]) \o <<".">> \o Dotted(Tail(chain))

LookupDefinedGuess(names, first_part) ==
  IF first_part \in DOMAIN names THEN names[first_part]
  ELSE stable_id(<<Str("function"), Str(first_part)>>)

\* self.defined_names.get(first_part)
LookupDefined(names, first_part) ==
  IF first_part \in DOMAIN names THEN names[first_part] ELSE None

\* --------------------------------------------------------------- Record Sink
\* write_jsonl: the file is opened in append mode.
WriteJsonl(file, items) == file \o items

\* ---------------------------------------------------------- Directory Walker
RootPath == <<"repo">>

\* The repository on disk is the sequence of its directories in the order
\* os.walk(root) reaches them top-down: [name, d, files], d the depth (0 for the
\* root, which comes first), files the directory's files [name, text, tree].
\* Names are token sequences: <<".", "git">>, <<"u", "1", ".py">>.
StartsWithDot(name) == name # <<>> /\ name[1] = "."

EndsWithPy(name) == name # <<>> /\ name[Len(name)] = ".py"

\* Path(dirpath) / name
PathJoin(dirpath, name) == dirpath \o <<"/">> \o name

\* exclude is None, or a list of names: [none, names].
NoExclude == [none |-> TRUE, names |-> {}]

ExcludeList(names) == [none |-> FALSE, names |-> names]

\* main: exclude=args.exclude or []
MainExclude(args_exclude) ==
  IF args_exclude.none \/ args_exclude.names = {} THEN ExcludeList({})
  ELSE args_exclude

\* The defaults of find_python_files and of build_directory_tree.
DefaultFindExclude ==
  {<<".", "git">>, <<"__pycache__">>, <<"node_modules">>, <<".", "venv">>, <<"venv">>}

DefaultTreeExclude ==
  DefaultFindExclude \cup {<<".", "tox">>, <<"build">>, <<"dist">>, <<".", "eggs">>}

\* if exclude is None: exclude = [...]
ExcludeOrDefault(excl, default) == IF excl.none THEN default ELSE excl.names

\* dirnames[:] = [d for d in dirnames if d not in exclude and not d.startswith('.')]
Pruned(name, ex) == name \in ex \/ StartsWithDot(name)

Parent(tree, i) ==
  CHOOSE j \in 1..(i - 1) :
    /\ tree[j].d = tree[i].d - 1
    /\ \A k \in (j + 1)..(i - 1) : tree[k].d > tree[j].d

RECURSIVE DirPath(_, _)
DirPath(tree, i) ==
  IF i = 1 THEN RootPath ELSE PathJoin(DirPath(tree, Parent(tree, i)), tree[i].name)

\* os.walk enters directory i: no directory on the way to it was pruned.
RECURSIVE Walked(_, _, _)
Walked(tree, ex, i) ==
  IF i = 1 THEN TRUE
  ELSE ~Pruned(tree[i].name, ex) /\ Walked(tree, ex, Parent(tree, i))

Indices(q) == [i \in 1..Len(q) |-> i]

WalkedDirs(tree, ex) == SelectSeq(Indices(tree), LAMBDA i : Walked(tree, ex, i))

\* The subdirectories of directory i that survive the pruning.
KeptSubdirs(tree, ex, i) ==
  SelectSeq(Indices(tree),
            LAMBDA c : c > i /\ tree[c].d = tree[i].d + 1 /\ Parent(tree, c) = i
                       /\ ~Pruned(tree[c].name, ex))

\* if filename.endswith('.py') and not filename.startswith('.')
PyFiles(files) ==
  SelectSeq(files, LAMBDA f : EndsWithPy(f.name) /\ ~StartsWithDot(f.name))

WalkerFileIdByName(dirpath, name) == stable_id(<<name>>)

\* file_id = stable_id(str(current_path / filename))
WalkerFileId(dirpath, name) == stable_id(<<PathJoin(dirpath, name)>>)

\* build_directory_tree: the Repository node; for every directory os.walk enters, a
\* Directory node and a Contains edge per surviving subdirectory, then a Contains
\* edge per source file.
BuildDirectoryTree(tree, excl) ==
  LET ex == ExcludeOrDefault(excl, DefaultTreeExclude)
      walked == WalkedDirs(tree, ex)
      DirId(i) == stable_id(<<DirPath(tree, i)>>)
      SubNodes(i) ==
        LET sub == KeptSubdirs(tree, ex, i) IN
          [n \in 1..Len(sub) |->
             [id |-> DirId(sub[n]), type |-> "Directory",
              name |-> tree[sub[n]].name, lineno |-> 0]]
      SubEdges(i) ==
        LET sub == KeptSubdirs(tree, ex, i) IN
          [n \in 1..Len(sub) |-> Edge("CONTAINS", DirId(i), DirId(sub[n]), None)]
      FileEdges(i) ==
        LET py == PyFiles(tree[i].files) IN
          [n \in 1..Len(py) |->
             Edge("CONTAINS", DirId(i),
                  WalkerFileId(DirPath(tree, i), py[n].name), None)]
  IN
    [nodes |-> <<[id |-> stable_id(<<RootPath>>), type |-> "Repository",
                  name |-> RootPath, lineno |-> 0]>>
               \o Flatten([n \in 1..Len(walked) |-> SubNodes(walked[n])]),
     edges |-> Flatten([n \in 1..Len(walked) |->
                          SubEdges(walked[n]) \o FileEdges(walked[n])])]

\* find_python_files: the source files of every directory os.walk enters.
FindPythonFiles(tree, excl) ==
  LET ex == ExcludeOrDefault(excl, DefaultFindExclude)
      walked == WalkedDirs(tree, ex)
      Units(i) ==
        LET py == PyFiles(tree[i].files) IN
          [n \in 1..Len(py) |->
             [path |-> PathJoin(DirPath(tree, i), py[n].name),
              text |-> py[n].text, tree |-> py[n].tree]]
  IN Flatten([n \in 1..Len(walked) |-> Units(walked[n])])

\* A repository whose files all lie in the root directory.
FlatRepo(files) == <<[name |-> RootPath, d |-> 0, files |-> files]>>

\* ------------------------------------------------------- analyze_repository
loaderRunVars ==
  <<link, conn, storeNodes, storeRels, constraints, pc, success, error,
    force_clear, clear, batch_size, nodes, edges, nk, ni, nodes_inserted, ek, ei,
    edges_inserted, skipped_external, loads, cleared, preStore, insertedRecs,
    submitted>>

walkVars == <<current_scope_stack, current_function, current_class, imports_map,
              defined_names, pos, frames>>

NoFinalStats ==
  [total_files |-> 0, files_processed |-> 0, files_with_errors |-> 0,
   totals |-> NoStats]

\* An output directory without record files.
NoPrior == [files |-> {}, nodes |-> <<>>, edges |-> <<>>]

\* No analysis is running (the loader's specifications).
SourceIdle ==
  /\ fs = FlatRepo(<<>>)
  /\ exclude = ExcludeList({})
  /\ clean = FALSE
  /\ use_existing = "none"
  /\ outFiles = {"nodes", "edges"}
  /\ prior = NoPrior
  /\ runs = 1
  /\ py_files = <<>>
  /\ apc = "idle"
  /\ analyzed = "none"
  /\ fidx = 1
  /\ errors = 0
  /\ total_stats = NoStats
  /\ final_stats = NoFinalStats
  /\ contrib = <<>>
  /\ x_nodes = <<>> /\ x_edges = <<>> /\ x_seen = <<>>
  /\ stats = NoStats
  /\ current_scope_stack = <<>>
  /\ current_function = None
  /\ current_class = NoClass
  /\ imports_map = EmptyMap
  /\ defined_names = EmptyMap
  /\ pos = 1
  /\ frames = <<>>
  /\ raised = FALSE

\* No load is running (the analysis specifications).
LoaderIdle ==
  /\ link = "up" /\ conn = "none"
  /\ storeNodes = <<>> /\ storeRels = <<>> /\ constraints = {}
  /\ pc = "idle" /\ success = "none" /\ error = [exc |-> "none", at |-> "none"]
  /\ force_clear = FALSE /\ clear = "none" /\ batch_size = 1
  /\ nodes = <<>> /\ edges = <<>>
  /\ nk = 1 /\ ni = 0 /\ nodes_inserted = 0
  /\ ek = 1 /\ ei = 0 /\ edges_inserted = 0 /\ skipped_external = 0
  /\ loads = 1 /\ cleared = FALSE
  /\ preStore = <<>> /\ insertedRecs = <<>> /\ submitted = {}

\* analyze_repository is entered: the repository, main's arguments and the
\* output directory as an earlier run left it.
RunInit(repos, excludeArgs, cleanFlags, priors, start) ==
  /\ LoaderIdle
  /\ fs \in repos
  /\ exclude \in {MainExclude(a) : a \in excludeArgs}
  /\ clean \in cleanFlags
  /\ prior \in priors
  /\ nodesFile = prior.nodes
  /\ edgesFile = prior.edges
  /\ outFiles = prior.files
  /\ use_existing = "none"
  /\ runs = 1
  /\ py_files = <<>>
  /\ apc = start
  /\ analyzed = "none"
  /\ fidx = 1
  /\ errors = 0
  /\ total_stats = NoStats
  /\ final_stats = NoFinalStats
  /\ contrib = <<>>
  /\ x_nodes = <<>> /\ x_edges = <<>> /\ x_seen = <<>>
  /\ stats = NoStats
  /\ current_scope_stack = <<>>
  /\ current_function = None
  /\ current_class = NoClass
  /\ imports_map = EmptyMap
  /\ defined_names = EmptyMap
  /\ pos = 1
  /\ frames = <<>>
  /\ raised = FALSE

\* A run on an output directory without record files, past the clean-up and the
\* prompt, over repositories whose files lie in the root directory.
AnalyzeInit(unitLists) ==
  RunInit({FlatRepo(u) : u \in unitLists}, {NoExclude}, {FALSE}, {NoPrior}, "walk")

\* analyze_repository up to the per-file loop: build_directory_tree, write_jsonl
\* of its records, find_python_files.
AnalyzeStart ==
  /\ apc = "walk"
  /\ LET dir == BuildDirectoryTree(fs, exclude) IN
       /\ nodesFile' = WriteJsonl(nodesFile, dir.nodes)
       /\ edgesFile' = WriteJsonl(edgesFile, dir.edges)
  /\ outFiles' = outFiles \cup {"nodes", "edges"}
  /\ py_files' = FindPythonFiles(fs, exclude)
  /\ IF Len(py_files') = 0
     THEN apc' = "done" /\ analyzed' = "false"
     ELSE apc' = "loop" /\ UNCHANGED analyzed
  /\ UNCHANGED <<loaderRunVars, runVars, fidx, errors, total_stats, final_stats,
                 contrib, extractorVars>>

ParseFailsOnlyUndecodable(unit) == unit.text = "undecodable"

\* extract_file: read_text or ast.parse raised, and ([], [], {}) is returned.
ParseFails(unit) == unit.text \in {"undecodable", "syntax"}

\* One pass of the per-file loop up to extractor.visit(tree): a unit that cannot
\* be read or parsed is counted and skipped; otherwise the extractor is built and
\* record_file_node runs.
ExtractFileEnter ==
  /\ apc = "loop"
  /\ fidx <= Len(py_files)
  /\ IF ParseFails(py_files[fidx])
     THEN /\ errors' = errors + 1
          /\ fidx' = fidx + 1
          /\ contrib' = Append(contrib, [nodes |-> <<>>, edges |-> <<>>,
                                         errors |-> errors + 1,
                                         raised |-> FALSE])
          /\ x_nodes' = <<>> /\ x_edges' = <<>> /\ x_seen' = <<>>
          /\ stats' = NoStats
          /\ raised' = FALSE
          /\ UNCHANGED <<apc, walkVars>>
     ELSE /\ x_nodes' = <<RecordFileNode(py_files[fidx])>>
          /\ x_edges' = <<>>
          /\ x_seen' = <<>>
          /\ stats' = NoStats
          /\ current_scope_stack' = <<FileId(py_files[fidx])>>
          /\ current_function' = None
          /\ current_class' = NoClass
          /\ imports_map' = EmptyMap
          /\ defined_names' = EmptyMap
          /\ pos' = 1
          /\ frames' = <<>>
          /\ raised' = FALSE
          /\ apc' = "visit"
          /\ UNCHANGED <<errors, fidx, contrib>>
  /\ UNCHANGED <<loaderRunVars, runVars, outFiles, nodesFile, edgesFile, py_files,
                 analyzed, total_stats, final_stats>>

\* The unit being traversed, its tree and the node the visitor is at.
Unit == py_files[fidx]

Tree == Unit.tree

Cur == Tree[pos]

Top == frames[Len(frames)]

Pop(stack) == SubSeq(stack, 1, Len(stack) - 1)

\* NodeVisitor.visit dispatches to the handler of the next node's kind, once the
\* handlers of the definitions that do not enclose it have returned.
Visiting(kinds) ==
  /\ apc = "visit"
  /\ ~raised
  /\ pos <= Len(Tree)
  /\ IF frames = <<>> THEN TRUE ELSE Cur.d > Top.d
  /\ Cur.k \in kinds

\* self.nodes.append / self.edges.append, in the order of em.
Appends(em) ==
  /\ x_nodes' = x_nodes \o NodesIn(em)
  /\ x_edges' = x_edges \o EdgesIn(em)
  /\ x_seen' = x_seen \o SeenIn(em, Len(x_nodes))

analysisRest ==
  <<loaderRunVars, runVars, outFiles, nodesFile, edgesFile, py_files, apc, analyzed,
    fidx, errors,
    total_stats, final_stats, contrib>>

\* generic_visit(node): the traversal goes on with the node's first child.
Descend(t, i) == i + 1

StatKeyFunctions(is_method) == "functions"

\* stat_key = "methods" if is_method else "functions"
StatKey(is_method) == IF is_method THEN "methods" ELSE "functions"

\* visit_FunctionDef / visit_AsyncFunctionDef up to generic_visit.
EnterFunction ==
  LET fn_id == FunctionId(Unit, pos, Cur)
      is_method == current_class # NoClass
      parent_scope == GetCurrentScope(current_scope_stack, FileId(Unit))
      named == {j \in 1..Len(Cur.decorators) : Cur.decorators[j] # ""}
  IN
    /\ Appends(DecoratorEmits(Unit, pos, Cur)
               \o RecordFunctionEmits(Unit, pos, Cur, is_method, parent_scope))
    /\ defined_names' = Put(defined_names, Cur.name, fn_id)
    /\ stats' = Bump(BumpBy(stats, "decorators", Cardinality(named)),
                     StatKey(is_method))
    /\ frames' = Append(frames, [kind |-> "function", d |-> Cur.d,
                                 prev_function |-> current_function,
                                 prev_class |-> current_class])
    /\ current_function' = fn_id
    /\ current_scope_stack' = Append(current_scope_stack, fn_id)
    /\ pos' = Descend(Tree, pos)
    /\ UNCHANGED <<current_class, imports_map, raised, analysisRest>>

VisitFunctionDef ==
  /\ Visiting({"FunctionDef"})
  /\ EnterFunction

VisitAsyncFunctionDef ==
  /\ Visiting({"AsyncFunctionDef"})
  /\ EnterFunction

\* The handler's tail, once generic_visit has returned: every node of the body
\* has been visited.
Leaving(kind) ==
  /\ apc = "visit"
  /\ ~raised
  /\ frames # <<>>
  /\ Top.kind = kind
  /\ IF pos > Len(Tree) THEN TRUE ELSE Cur.d <= Top.d

RestoreFunctionNone(frame) == None

\* self.current_function = prev_function
RestoreFunction(frame) == frame.prev_function

LeaveFunctionDef ==
  /\ Leaving("function")
  /\ current_scope_stack' = Pop(current_scope_stack)
  /\ current_function' = RestoreFunction(Top)
  /\ frames' = Pop(frames)
  /\ UNCHANGED <<x_nodes, x_edges, x_seen, stats, current_class, imports_map,
                 defined_names, pos, raised, analysisRest>>

VisitClassDef ==
  /\ Visiting({"ClassDef"})
  /\ LET parent_scope == GetCurrentScope(current_scope_stack, FileId(Unit))
         names == Put(defined_names, Cur.name, ClassId(Unit, pos, Cur))
     IN
       /\ Appends(ClassEmits(Unit, pos, Cur, parent_scope, names))
       /\ defined_names' = names
  /\ stats' = Bump(stats, "classes")
  /\ frames' = Append(frames, [kind |-> "class", d |-> Cur.d,
                               prev_function |-> current_function,
                               prev_class |-> current_class])
  /\ current_class' = Cur.name
  /\ current_scope_stack' = Append(current_scope_stack, ClassScope(Unit, pos, Cur))
  /\ pos' = Descend(Tree, pos)
  /\ UNCHANGED <<current_function, imports_map, raised, analysisRest>>

LeaveClassDef ==
  /\ Leaving("class")
  /\ current_scope_stack' = Pop(current_scope_stack)
  /\ current_class' = Top.prev_class
  /\ frames' = Pop(frames)
  /\ UNCHANGED <<x_nodes, x_edges, x_seen, stats, current_function, imports_map,
                 defined_names, pos, raised, analysisRest>>

\* var_id = stable_id(scope, "var", var_name, str(node.lineno))
VarId(scope, var_name, i) == stable_id(<<scope, Str("var"), Str(var_name), Num(LineOf(i))>>)

\* visit_Assign's loop over node.targets: a Variable node and a Defines edge for
\* each target that is a Name.
AssignEmits(scope, i, targets) ==
  Flatten([j \in 1..Len(targets) |->
    <<EmitN([id |-> VarId(scope, targets[j], i), type |-> "Variable",
             name |-> Str(targets[j]), lineno |-> LineOf(i)]),
      EmitE(Edge("DEFINES", scope, VarId(scope, targets[j], i), None))>>])

\* self.defined_names[var_name] = var_id, target after target.
RECURSIVE PutTargets(_, _, _, _)
PutTargets(map, scope, i, targets) ==
  IF targets = <<>> THEN map
  ELSE PutTargets(Put(map, Head(targets), VarId(scope, Head(targets), i)), scope, i,
                  Tail(targets))

\* visit_Assign, every target a Name.  str() of a literal of more than 4300
\* digits raises ValueError before anything is appended; the exception leaves
\* every enclosing handler and reaches extract_file.
VisitAssign ==
  /\ Visiting({"Assign"})
  /\ IF Cur.value = "huge"
     THEN /\ raised' = TRUE
          /\ UNCHANGED <<x_nodes, x_edges, x_seen, stats, defined_names, pos>>
     ELSE LET scope == GetCurrentScope(current_scope_stack, FileId(Unit)) IN
            /\ Appends(AssignEmits(scope, pos, Targets(Cur)))
            /\ defined_names' = PutTargets(defined_names, scope, pos, Targets(Cur))
            /\ stats' = BumpBy(stats, "variables", Len(Targets(Cur)))
            /\ pos' = pos + 1
            /\ UNCHANGED raised
  /\ UNCHANGED <<current_scope_stack, current_function, current_class, imports_map,
                 frames, analysisRest>>

\* visit_Call's resolved_name: the callee with its first part replaced by what
\* the import table maps it to; callee[len(first_part):] is the rest of the
\* chain, its leading dot included.
ResolvedName(imports, chain) ==
  LET callee == Dotted(chain)
      first_part == chain[1]
  IN  IF first_part \in DOMAIN imports
      THEN imports[first_part]
             \o (IF Len(chain) > 1 THEN SubSeq(callee, 2, Len(callee)) ELSE <<>>)
      ELSE callee

\* visit_Call: callee is a name or a dotted name.
VisitCall ==
  /\ Visiting({"Call"})
  /\ LET caller == GetCurrentScope(current_scope_stack, FileId(Unit))
         callee == Dotted(Cur.callee)
         resolved_name == ResolvedName(imports_map, Cur.callee)
         target_id == LookupDefined(defined_names, Cur.callee[1])
     IN
       IF Cur.callee # <<>> /\ caller # None
       THEN /\ Appends(<<EmitE(Edge("CALLS", caller, target_id, callee)
                               @@ [lineno |-> LineOf(pos),
                                   resolved_name |-> IF resolved_name # callee
                                                     THEN resolved_name
                                                     ELSE None,
                                   inferred |-> target_id = None])>>)
            /\ stats' = Bump(stats, "calls")
       ELSE UNCHANGED <<x_nodes, x_edges, x_seen, stats>>
  /\ pos' = pos + 1
  /\ UNCHANGED <<current_scope_stack, current_function, current_class, imports_map,
                 defined_names, frames, raised, analysisRest>>

VisitRaise ==
  /\ Visiting({"Raise"})
  /\ IF Cur.exc # None /\ current_function # None
     THEN Appends(<<EmitE(Edge("RAISES", current_function, None,
                                _safe_unparse(Cur.exc)))>>)
     ELSE UNCHANGED <<x_nodes, x_edges, x_seen>>
  /\ pos' = pos + 1
  /\ UNCHANGED <<stats, current_scope_stack, current_function, current_class,
                 imports_map, defined_names, frames, raised, analysisRest>>

VisitReturn ==
  /\ Visiting({"Return"})
  /\ IF Cur.value # None /\ current_function # None
     THEN Appends(<<EmitE(Edge("RETURNS", current_function, None,
                                _safe_unparse(Cur.value)))>>)
     ELSE UNCHANGED <<x_nodes, x_edges, x_seen>>
  /\ pos' = pos + 1
  /\ UNCHANGED <<stats, current_scope_stack, current_function, current_class,
                 imports_map, defined_names, frames, raised, analysisRest>>

\* alias.asname: None when the import has no 'as'.
Alias(asname) == IF asname # "" THEN Str(asname) ELSE None

\* visit_Import / visit_ImportFrom with one alias: the Imports edge leaves the
\* File node whatever the scope.
ImportEmits(unit, i, target, fields) ==
  LET import_id == stable_id(<<FileId(unit), Str("import"), target, Num(LineOf(i))>>) IN
    <<EmitN([id |-> import_id, type |-> "Import", lineno |-> LineOf(i)] @@ fields),
      EmitE(Edge("IMPORTS", FileId(unit), import_id, None))>>

VisitImport ==
  /\ Visiting({"Import"})
  /\ Appends(ImportEmits(Unit, pos, Str(Cur.name),
                         [name |-> Str(Cur.name), alias |-> Alias(Cur.asname)]))
  /\ imports_map' = Put(imports_map,
                        IF Cur.asname # "" THEN Cur.asname ELSE Cur.name,
                        Str(Cur.name))
  /\ stats' = Bump(stats, "imports")
  /\ pos' = pos + 1
  /\ UNCHANGED <<current_scope_stack, current_function, current_class,
                 defined_names, frames, raised, analysisRest>>

VisitImportFrom ==
  /\ Visiting({"ImportFrom"})
  /\ LET target == IF Cur.module # "" THEN Dotted(<<Cur.module, Cur.name>>)
                   ELSE Str(Cur.name)
     IN
       /\ Appends(ImportEmits(Unit, pos, target,
                              [name |-> Str(Cur.name),
                               module |-> IF Cur.module # "" THEN Str(Cur.module)
                                          ELSE <<>>,
                               full_name |-> target,
                               alias |-> Alias(Cur.asname)]))
       /\ imports_map' = Put(imports_map,
                             IF Cur.asname # "" THEN Cur.asname ELSE Cur.name,
                             target)
  /\ stats' = Bump(stats, "imports")
  /\ pos' = pos + 1
  /\ UNCHANGED <<current_scope_stack, current_function, current_class,
                 defined_names, frames, raised, analysisRest>>

ExtractResultRolledBack ==
  IF raised THEN [nodes |-> <<>>, edges |-> <<>>, stats |-> NoStats]
  ELSE [nodes |-> x_nodes, edges |-> x_edges, stats |-> stats]

\* return extractor.nodes, extractor.edges, extractor.stats
ExtractResult == [nodes |-> x_nodes, edges |-> x_edges, stats |-> stats]

\* extract_file returns, either because visit(tree) returned or because it raised
\* (the except clause only prints), and the loop body handles the result.
ExtractFileReturn ==
  /\ apc = "visit"
  /\ raised \/ (pos > Len(Tree) /\ frames = <<>>)
  /\ LET r == ExtractResult IN
       IF r.nodes = <<>> /\ r.edges = <<>>
       THEN /\ errors' = errors + 1
            /\ contrib' = Append(contrib, [nodes |-> <<>>, edges |-> <<>>,
                                           errors |-> errors + 1,
                                           raised |-> raised])
            /\ UNCHANGED <<nodesFile, edgesFile, total_stats>>
       ELSE /\ nodesFile' = WriteJsonl(nodesFile, r.nodes)
            /\ edgesFile' = WriteJsonl(edgesFile, r.edges)
            /\ total_stats' = [key \in StatKeys |-> total_stats[key] + r.stats[key]]
            /\ contrib' = Append(contrib, [nodes |-> r.nodes, edges |-> r.edges,
                                           errors |-> errors,
                                           raised |-> raised])
            /\ UNCHANGED errors
  /\ fidx' = fidx + 1
  /\ apc' = "loop"
  /\ UNCHANGED <<loaderRunVars, runVars, outFiles, py_files, analyzed, final_stats,
                 extractorVars>>

\* After the loop: final_stats is computed and written, and True is returned.
WriteStatistics ==
  /\ apc = "loop"
  /\ fidx > Len(py_files)
  /\ final_stats' = [total_files |-> Len(py_files),
                     files_processed |-> Len(py_files) - errors,
                     files_with_errors |-> errors,
                     totals |-> total_stats]
  /\ outFiles' = outFiles \cup {"stats"}
  /\ analyzed' = "true"
  /\ apc' = "done"
  /\ UNCHANGED <<loaderRunVars, runVars, nodesFile, edgesFile, py_files, fidx, errors,
                 total_stats, contrib, extractorVars>>

AnalyzeNext ==
  \/ AnalyzeStart
  \/ ExtractFileEnter
  \/ VisitImport
  \/ VisitImportFrom
  \/ VisitFunctionDef
  \/ VisitAsyncFunctionDef
  \/ LeaveFunctionDef
  \/ VisitClassDef
  \/ LeaveClassDef
  \/ VisitAssign
  \/ VisitCall
  \/ VisitRaise
  \/ VisitReturn
  \/ ExtractFileReturn
  \/ WriteStatistics

\* The statements the units are made of.
Statements ==
  {ClassDef("A", <<"Base">>), ClassDef("B", <<"A">>),
   FunctionDef("f", <<"x">>, <<>>), AsyncFunctionDef("g", <<>>, <<"d">>),
   Assign("v", "const"), Assign("w", "huge"),
   Call(<<"f">>), Return(Str("v")), Raise_(Str("E")),
   Import("os", ""), ImportFrom("m", "n", "")}

\* One unit that parses, of any tree of at most MaxStmts nodes.
ExtractInit ==
  AnalyzeInit({<<UnitAt(1, "ok", t)>> : t \in TreesOver(Statements, MaxStmts)})

ExtractSpec == ExtractInit /\ [][AnalyzeNext]_vars

At(node, depth) == [node EXCEPT !.d = depth]

\* The units of a repository: one that cannot be decoded, one that cannot be
\* parsed, and units that parse, one of which makes the traversal raise.
UnitShapes ==
  {[text |-> "undecodable", tree |-> <<>>],
   [text |-> "syntax", tree |-> <<>>],
   [text |-> "ok", tree |-> <<>>],
   [text |-> "ok",
    tree |-> <<Import("os", ""), ImportFrom("m", "n", ""),
               ClassDef("A", <<"Base">>),
               At(FunctionDef("f", <<"x">>, <<>>), 2),
               At(Return(Str("v")), 3),
               AsyncFunctionDef("g", <<>>, <<"d">>),
               At(Raise_(Str("E")), 2),
               Call(<<"f">>)>>],
   [text |-> "ok",
    tree |-> <<FunctionDef("f", <<"x">>, <<>>),
               At(Assign("v", "const"), 2),
               At(Assign("w", "huge"), 2),
               AsyncFunctionDef("g", <<>>, <<"d">>)>>]}

\* A repository of at most MaxFiles units, in the order find_python_files lists
\* them.
UnitLists(shapes, n) ==
  UNION {{[i \in 1..m |-> UnitAt(i, sh[i].text, sh[i].tree)] : sh \in [1..m -> shapes]}
           : m \in 0..n}

AnalyzeRepoInit == AnalyzeInit(UnitLists(UnitShapes, MaxFiles))

AnalyzeSpec == AnalyzeRepoInit /\ [][AnalyzeNext]_vars

KeepsExistingNever(answer) == FALSE

\* if use_existing == 'yes'
KeepsExisting(answer) == answer = "yes"

\* analyze_repository up to build_directory_tree: with clean the three output
\* files are removed; without it, when both record files exist, the user chooses
\* between returning True on the files as they are and removing them.
AnalyzePrepare ==
  /\ apc = "begin"
  /\ IF clean
     THEN /\ outFiles' = {}
          /\ nodesFile' = <<>>
          /\ edgesFile' = <<>>
          /\ apc' = "walk"
          /\ UNCHANGED <<use_existing, analyzed>>
     ELSE IF {"nodes", "edges"} \subseteq outFiles
          THEN \E answer \in Answers :
                 /\ use_existing' = answer
                 /\ IF KeepsExisting(answer)
                    THEN /\ apc' = "done"
                         /\ analyzed' = "true"
                         /\ UNCHANGED <<outFiles, nodesFile, edgesFile>>
                    ELSE /\ outFiles' = {}
                         /\ nodesFile' = <<>>
                         /\ edgesFile' = <<>>
                         /\ apc' = "walk"
                         /\ UNCHANGED analyzed
          ELSE /\ apc' = "walk"
               /\ UNCHANGED <<outFiles, nodesFile, edgesFile, use_existing, analyzed>>
  /\ UNCHANGED <<loaderRunVars, fs, exclude, clean, prior, runs, py_files, fidx,
                 errors, total_stats, final_stats, contrib, extractorVars>>

\* The user interrupts the per-file loop: KeyboardInterrupt is caught nowhere
\* (extract_file catches Exception only) and the process ends.
Interrupt ==
  /\ apc \in {"loop", "visit"}
  /\ apc' = "interrupted"
  /\ UNCHANGED <<loaderRunVars, runVars, outFiles, nodesFile, edgesFile, py_files,
                 analyzed, fidx, errors, total_stats, final_stats, contrib,
                 extractorVars>>

\* The pipeline is run again on the same repository and output directory.
Rerun ==
  /\ apc = "interrupted"
  /\ runs < MaxRuns
  /\ runs' = runs + 1
  /\ clean' \in BOOLEAN
  /\ prior' = [files |-> outFiles, nodes |-> nodesFile, edges |-> edgesFile]
  /\ use_existing' = "none"
  /\ apc' = "begin"
  /\ analyzed' = "none"
  /\ py_files' = <<>>
  /\ fidx' = 1
  /\ errors' = 0
  /\ total_stats' = NoStats
  /\ final_stats' = NoFinalStats
  /\ contrib' = <<>>
  /\ x_nodes' = <<>> /\ x_edges' = <<>> /\ x_seen' = <<>>
  /\ stats' = NoStats
  /\ current_scope_stack' = <<>>
  /\ current_function' = None
  /\ current_class' = NoClass
  /\ imports_map' = EmptyMap
  /\ defined_names' = EmptyMap
  /\ pos' = 1
  /\ frames' = <<>>
  /\ raised' = FALSE
  /\ UNCHANGED <<loaderRunVars, fs, exclude, outFiles, nodesFile, edgesFile>>

RerunNext ==
  \/ AnalyzePrepare
  \/ Interrupt
  \/ Rerun
  \/ AnalyzeNext

\* A unit with every kind of statement.
FullTree ==
  <<Import("os", ""), ImportFrom("m", "n", ""),
    ClassDef("B", <<"A">>),
    At(FunctionDef("f", <<"x">>, <<>>), 2),
    At(Assign("v", "const"), 3),
    At(Return(Str("v")), 3),
    AsyncFunctionDef("g", <<>>, <<"d">>),
    At(Raise_(Str("E")), 2),
    Call(<<"f">>)>>

SourceFile == [name |-> <<"u", ".py">>, text |-> "ok", tree |-> FullTree]

HiddenFile == [name |-> <<".", "h", ".py">>, text |-> "ok", tree |-> <<>>]

TextFile == [name |-> <<"notes", ".txt">>, text |-> "ok", tree |-> <<>>]

DirNames == {<<"pkg">>, <<"venv">>, <<"__pycache__">>, <<".", "git">>}

\* No two directories with the same parent have the same name.
SiblingsDiffer(tree) ==
  \A i, j \in 2..Len(tree) :
    (i < j /\ tree[i].name = tree[j].name) => Parent(tree, i) # Parent(tree, j)

\* The directory trees with m directories below the root.
RECURSIVE DirTreesOfLen(_)
DirTreesOfLen(m) ==
  IF m = 0
  THEN {<<[name |-> RootPath, d |-> 0, files |-> f]>>
          : f \in {<<SourceFile>>, <<HiddenFile, TextFile>>}}
  ELSE {t \in UNION {{Append(t, [name |-> n, d |-> dd, files |-> f])
                         : n \in DirNames, dd \in 1..(t[Len(t)].d + 1),
                           f \in {<<>>, <<SourceFile>>}}
                        : t \in DirTreesOfLen(m - 1)}
          : SiblingsDiffer(t)}

\* Repositories of at most MaxDirs directories, run with and without --exclude.
WalkInit ==
  RunInit(UNION {DirTreesOfLen(m) : m \in 0..MaxDirs},
          {NoExclude, ExcludeList({<<"pkg">>})}, {FALSE}, {NoPrior}, "walk")

WalkSpec == WalkInit /\ [][AnalyzeNext]_vars

\* Records an earlier run left for a file that is no longer in the repository.
OldNode ==
  [id |-> stable_id(<<PathJoin(RootPath, <<"old", ".py">>)>>), type |-> "File",
   name |-> PathJoin(RootPath, <<"old", ".py">>), lineno |-> 0]

OldEdge ==
  Edge("CONTAINS", stable_id(<<RootPath>>),
       stable_id(<<PathJoin(RootPath, <<"old", ".py">>)>>), None)

\* Runs that begin at the top of analyze_repository, with or without clean, on an
\* output directory that is empty, holds only nodes.jsonl, or holds a prior run.
RerunInit ==
  RunInit({FlatRepo(<<>>), FlatRepo(<<SourceFile>>),
           FlatRepo(<<SourceFile, UnitAt(2, "syntax", <<>>)>>)},
          {NoExclude}, BOOLEAN,
          {NoPrior,
           [files |-> {"nodes"}, nodes |-> <<OldNode>>, edges |-> <<>>],
           [files |-> {"nodes", "edges", "stats"}, nodes |-> <<OldNode>>,
            edges |-> <<OldEdge>>]},
          "begin")

RerunSpec == RerunInit /\ [][RerunNext]_vars

\* ------------------------------------------------------------ load_to_neo4j
fileVars == <<nodesFile, edgesFile>>
storeVars == <<storeNodes, storeRels, constraints>>
nodeLoopVars == <<nk, ni, nodes_inserted, preStore, insertedRecs>>
edgeLoopVars == <<ek, ei, edges_inserted, skipped_external, submitted>>
callVars == <<force_clear, clear, batch_size, loads>>

NoError == [exc |-> "none", at |-> "none"]

\* except Exception as e: ... return False
Raise(e) ==
  /\ pc' = "done"
  /\ success' = "false"
  /\ error' = [exc |-> e, at |-> pc]

LoaderInit(nodeFiles, edgeFiles, stores) ==
  /\ nodesFile \in nodeFiles
  /\ edgesFile \in edgeFiles
  /\ link = "up"
  /\ conn = "none"
  /\ storeNodes \in stores
  /\ storeRels = <<>>
  /\ constraints = {}
  /\ pc = "start"
  /\ success = "none"
  /\ error = NoError
  /\ force_clear = FALSE
  /\ clear = "none"
  /\ batch_size \in 1..MaxBatch
  /\ nodes = <<>>
  /\ edges = <<>>
  /\ nk = 1 /\ ni = 0 /\ nodes_inserted = 0
  /\ ek = 1 /\ ei = 0 /\ edges_inserted = 0 /\ skipped_external = 0
  /\ loads = 1
  /\ cleared = FALSE
  /\ preStore = <<>>
  /\ insertedRecs = <<>>
  /\ submitted = {}
  /\ SourceIdle

\* The network path to the store breaks while a load is running.
LoseLink ==
  /\ pc # "done"
  /\ UNCHANGED <<analyzeVars, extractorVars>>
  /\ link = "up"
  /\ link' = "down"
  /\ UNCHANGED <<fileVars, conn, storeVars, pc, success, error, callVars, nodes,
                 edges, nodeLoopVars, edgeLoopVars, cleared>>

\* Neo4jRepositoryLoader.__init__: open the driver and run RETURN 1.
Connect ==
  /\ pc = "start"
  /\ UNCHANGED <<analyzeVars, extractorVars>>
  /\ IF link = "up"
     THEN /\ conn' = "open"
          /\ pc' = "check"
          /\ UNCHANGED <<success, error>>
     ELSE /\ Raise("ServiceUnavailable")
          /\ UNCHANGED conn
  /\ UNCHANGED <<fileVars, link, storeVars, callVars, nodes, edges, nodeLoopVars,
                 edgeLoopVars, cleared>>

ShouldClearAlways(existing, force, answer) == existing > 0

\* if existing > 0: clear when force_clear, or when the answer is 'yes'.
ShouldClear(existing, force, answer) ==
  existing > 0 /\ (force \/ answer = "yes")

\* check_existing_data and the choice that follows it.
CheckExistingData ==
  /\ pc = "check"
  /\ UNCHANGED <<analyzeVars, extractorVars>>
  /\ IF link = "down"
     THEN Raise("ServiceUnavailable") /\ UNCHANGED clear
     ELSE /\ UNCHANGED <<success, error>>
          /\ IF Len(storeNodes) > 0 /\ ~force_clear
             THEN clear' \in Answers
             ELSE UNCHANGED clear
          /\ pc' = IF ShouldClear(Len(storeNodes), force_clear, clear')
                   THEN "clear" ELSE "schema"
  /\ UNCHANGED <<fileVars, link, conn, storeVars, force_clear, batch_size, loads,
                 nodes, edges, nodeLoopVars, edgeLoopVars, cleared>>

\* clear_database: DETACH DELETE in rounds until nothing is left.
ClearDatabase ==
  /\ pc = "clear"
  /\ UNCHANGED <<analyzeVars, extractorVars>>
  /\ IF link = "down"
     THEN /\ Raise("ServiceUnavailable")
          /\ UNCHANGED <<storeNodes, storeRels, cleared>>
     ELSE /\ storeNodes' = <<>>
          /\ storeRels' = <<>>
          /\ cleared' = TRUE
          /\ pc' = "schema"
          /\ UNCHANGED <<success, error>>
  /\ UNCHANGED <<fileVars, link, conn, constraints, callVars, nodes, edges,
                 nodeLoopVars, edgeLoopVars>>

\* create_constraints_and_indexes: every statement in its own try/except-pass.
CreateConstraintsAndIndexes ==
  /\ pc = "schema"
  /\ UNCHANGED <<analyzeVars, extractorVars>>
  /\ constraints' =
       constraints \cup
         {k \in ConstraintKinds : link = "up" /\ CanConstrain(storeNodes, k)}
  /\ pc' = "read_nodes"
  /\ UNCHANGED <<fileVars, link, conn, storeNodes, storeRels, success, error,
                 callVars, nodes, edges, nodeLoopVars, edgeLoopVars, cleared>>

\* nodes = loader.load_jsonl(nodes_path)
LoadNodesFile ==
  /\ pc = "read_nodes"
  /\ UNCHANGED <<analyzeVars, extractorVars>>
  /\ IF Undecodable(nodesFile)
     THEN /\ Raise("JSONDecodeError")
          /\ UNCHANGED nodes
     ELSE /\ nodes' = LoadItems(nodesFile)
          /\ pc' = "read_edges"
          /\ UNCHANGED <<success, error>>
  /\ UNCHANGED <<fileVars, link, conn, storeVars, callVars, edges, nodeLoopVars,
                 edgeLoopVars, cleared>>

\* edges = loader.load_jsonl(edges_path)
LoadEdgesFile ==
  /\ pc = "read_edges"
  /\ UNCHANGED <<analyzeVars, extractorVars>>
  /\ edges' = edgesFile
  /\ pc' = "nodes"
  /\ UNCHANGED <<fileVars, link, conn, storeVars, success, error, callVars, nodes,
                 nodeLoopVars, edgeLoopVars, cleared>>

\* batch_insert_nodes up to its first batch: node_copy.pop('type') for every
\* record, then the first kind of type_order that has records.
BatchInsertNodes ==
  /\ pc = "nodes"
  /\ UNCHANGED <<analyzeVars, extractorVars>>
  /\ IF \E i \in 1..Len(nodes) : nodes[i].form = "notype"
     THEN /\ Raise("KeyError")
          /\ UNCHANGED nodeLoopVars
     ELSE /\ nk' = NextKind(1)
          /\ ni' = 0
          /\ nodes_inserted' = 0
          /\ preStore' = storeNodes
          /\ insertedRecs' = <<>>
          /\ pc' = IF NextKind(1) > Len(type_order) THEN "edges" ELSE "node_batch"
          /\ UNCHANGED <<success, error>>
  /\ UNCHANGED <<fileVars, link, conn, storeVars, callVars, nodes, edges,
                 edgeLoopVars, cleared>>

\* One pass of `for i in range(0, len(type_nodes), batch_size)`.
NodeBatch ==
  /\ pc = "node_batch"
  /\ UNCHANGED <<analyzeVars, extractorVars>>
  /\ LET kind == type_order[nk]
         tn == TypeNodes(kind)
         batch == SubSeq(tn, ni + 1, Min(ni + batch_size, Len(tn)))
         r == InsertNodeBatch(storeNodes, constraints, kind, batch)
         more == ni + batch_size < Len(tn)
         k2 == IF more THEN nk ELSE NextKind(nk + 1)
     IN  /\ storeNodes' = r.st
         /\ nodes_inserted' = nodes_inserted + r.n
         /\ insertedRecs' = insertedRecs \o r.ins
         /\ nk' = k2
         /\ ni' = IF more THEN ni + batch_size ELSE 0
         /\ pc' = IF k2 > Len(type_order) THEN "edges" ELSE "node_batch"
  /\ UNCHANGED <<fileVars, link, conn, storeRels, constraints, success, error,
                 callVars, nodes, edges, edgeLoopVars, cleared, preStore>>

\* batch_insert_edges up to its first type.
BatchInsertEdges ==
  /\ pc = "edges"
  /\ UNCHANGED <<analyzeVars, extractorVars>>
  /\ ek' = NextEdgeType(1)
  /\ ei' = 0
  /\ edges_inserted' = 0
  /\ skipped_external' = 0
  /\ submitted' = {}
  /\ pc' = IF NextEdgeType(1) > Len(edge_order) THEN "close" ELSE "edge_batch"
  /\ UNCHANGED <<fileVars, link, conn, storeVars, success, error, callVars, nodes,
                 edges, nodeLoopVars, cleared>>

\* One type's bookkeeping (on its first pass) and one pass of
\* `for i in range(0, len(direct), batch_size)`.
EdgeBatch ==
  /\ pc = "edge_batch"
  /\ UNCHANGED <<analyzeVars, extractorVars>>
  /\ LET type == edge_order[ek]
         direct == DirectEdges(type)
         inferred == Len(TypeEdges(type)) - Len(direct)
         batch == SubSeq(direct, ei + 1, Min(ei + batch_size, Len(direct)))
         created == InsertEdgeBatch(storeNodes, batch)
         more == ei + batch_size < Len(direct)
         k2 == IF more THEN ek ELSE NextEdgeType(ek + 1)
     IN  /\ skipped_external' = skipped_external + (IF ei = 0 THEN inferred ELSE 0)
         /\ submitted' = submitted \cup Range(batch)
         /\ storeRels' = storeRels \o created
         /\ edges_inserted' = edges_inserted + Len(created)
         /\ ek' = k2
         /\ ei' = IF more THEN ei + batch_size ELSE 0
         /\ pc' = IF k2 > Len(edge_order) THEN "close" ELSE "edge_batch"
  /\ UNCHANGED <<fileVars, link, conn, storeNodes, constraints, success, error,
                 callVars, nodes, edges, nodeLoopVars, cleared>>

\* loader.close(); return True
CloseAndReturn ==
  /\ pc = "close"
  /\ UNCHANGED <<analyzeVars, extractorVars>>
  /\ conn' = "closed"
  /\ success' = "true"
  /\ pc' = "done"
  /\ UNCHANGED <<fileVars, link, storeVars, error, callVars, nodes, edges,
                 nodeLoopVars, edgeLoopVars, cleared>>

\* The pipeline is run again on the same record files (main -> load_to_neo4j).
LoadAgain ==
  /\ pc = "done"
  /\ UNCHANGED <<analyzeVars, extractorVars>>
  /\ loads < MaxLoads
  /\ loads' = loads + 1
  /\ force_clear' \in BOOLEAN
  /\ clear' = "none"
  /\ pc' = "start"
  /\ conn' = "none"
  /\ success' = "none"
  /\ error' = NoError
  /\ nodes' = <<>>
  /\ edges' = <<>>
  /\ nk' = 1 /\ ni' = 0 /\ nodes_inserted' = 0
  /\ ek' = 1 /\ ei' = 0 /\ edges_inserted' = 0 /\ skipped_external' = 0
  /\ cleared' = FALSE
  /\ preStore' = <<>>
  /\ insertedRecs' = <<>>
  /\ submitted' = {}
  /\ UNCHANGED <<fileVars, link, storeVars, batch_size>>

OneLoadNext ==
  \/ LoseLink
  \/ Connect
  \/ CheckExistingData
  \/ ClearDatabase
  \/ CreateConstraintsAndIndexes
  \/ LoadNodesFile
  \/ LoadEdgesFile
  \/ BatchInsertNodes
  \/ NodeBatch
  \/ BatchInsertEdges
  \/ EdgeBatch
  \/ CloseAndReturn

LoaderNext ==
  \/ OneLoadNext
  \/ LoadAgain

\* Node files of every shape, against a few edge files.
NodeLoadInit ==
  LoaderInit(SeqsUpTo(NodeLines, MaxNodes),
             {<<>>, <<[type |-> "DEFINES", from_id |-> "n1", to_id |-> "n2"]>>},
             {<<>>})

NodeLoadSpec == NodeLoadInit /\ [][LoaderNext]_vars

\* Edge files of every shape, against well-formed node files and a store that is
\* empty or already holds an entity.
GoodNode(kind, id) == [form |-> "ok", kind |-> kind, id |-> id, bad |-> FALSE]

EdgeLoadInit ==
  LoaderInit({<<>>,
              <<GoodNode("File", "n1")>>,
              <<GoodNode("File", "n1"), GoodNode("Class", "n2")>>,
              <<GoodNode("File", "n1"), GoodNode("Class", "n1")>>},
             SeqsUpTo(EdgeLines, MaxEdges),
             {<<>>, <<[kind |-> "File", id |-> "n2"]>>})

EdgeLoadSpec == EdgeLoadInit /\ [][OneLoadNext]_vars

\* ================================================================== claims
NodesReturned ==
  pc \in {"edges", "edge_batch", "close"} \/ (pc = "done" /\ success = "true")

EdgesReturned == pc = "close" \/ (pc = "done" /\ success = "true")

\* C1: a load returns failure only when the connection to the store could not be
\* established or was lost; no malformed or rejected record makes it fail.
C1_LoadFailsOnlyOnConnection ==
  (pc = "done" /\ success = "false") => error.exc = "ServiceUnavailable"

\* The store takes record i when it is submitted alone in its turn: its value is
\* storable, and no constraint in force is broken by an entity that was there
\* before or by an earlier storable record of the same kind and id.
AcceptedAlone(i) ==
  /\ ~nodes[i].bad
  /\ ~(/\ nodes[i].kind \in constraints
       /\ \/ CountOf(preStore, nodes[i].kind, nodes[i].id) > 0
          \/ \E j \in 1..(i - 1) :
               /\ nodes[j].kind = nodes[i].kind
               /\ nodes[j].id = nodes[i].id
               /\ ~nodes[j].bad)

\* C2: batch_insert_nodes isolates failures: the returned total is the number of
\* entities created, no record is created twice, a record the store refuses is
\* never created, and once the call has returned (store reachable) the records
\* created are exactly those the store accepts on their own, whatever batch or
\* kind they were in.
C2_BulkheadNodeInsertion ==
  /\ (pc = "node_batch" \/ NodesReturned) =>
       /\ nodes_inserted = Len(insertedRecs)
       /\ Len(storeNodes) = Len(preStore) + nodes_inserted
       /\ \A a, b \in 1..Len(insertedRecs) :
            insertedRecs[a] = insertedRecs[b] => a = b
       /\ \A a \in 1..Len(insertedRecs) :
            /\ ~nodes[insertedRecs[a]].bad
            /\ storeNodes[Len(preStore) + a] =
                 [kind |-> nodes[insertedRecs[a]].kind,
                  id |-> nodes[insertedRecs[a]].id]
  /\ (NodesReturned /\ link = "up") =>
       \A i \in 1..Len(nodes) : (i \in Range(insertedRecs)) <=> AcceptedAlone(i)

\* A batch of two failed on a refused record; the other record went in alone.
C2_Witness ==
  /\ NodesReturned /\ link = "up" /\ batch_size >= 2
  /\ \E i, j \in 1..Len(nodes) :
       /\ nodes[i].kind = nodes[j].kind
       /\ nodes[i].bad
       /\ j \in Range(insertedRecs)
       /\ nodes_inserted = 1

\* A load that ran to its end after an earlier load of the same files, without
\* clearing the store in between.
SecondLoadDone ==
  /\ pc = "done" /\ success = "true" /\ link = "up"
  /\ loads >= 2 /\ ~cleared

\* C3 (as claimed): after the same node batch was loaded twice without a reset,
\* every record has two store entities carrying its id.
C3_TwoEntitiesPerRecord ==
  SecondLoadDone =>
    \A i \in 1..Len(nodes) :
      ~nodes[i].bad => CountOf(storeNodes, nodes[i].kind, nodes[i].id) >= 2

\* C3 (amended): with the uniqueness constraints of the schema setup in force,
\* the second load creates nothing: every storable record of a constrained kind
\* has exactly one store entity of its kind and id, and the second load's total
\* is zero.
C3_SecondLoadRejected ==
  SecondLoadDone =>
    /\ nodes_inserted = 0
    /\ \A i \in 1..Len(nodes) :
         (~nodes[i].bad /\ nodes[i].kind \in ConstraintKinds) =>
           CountOf(storeNodes, nodes[i].kind, nodes[i].id) = 1

C3_Witness ==
  /\ SecondLoadDone
  /\ \E i \in 1..Len(nodes) : ~nodes[i].bad
  /\ Len(storeNodes) > 0

\* C4: an edge record without a destination id is never submitted, is counted
\* as skipped, and no failure is raised by edge insertion; a relationship exists
\* only between entities whose ids are its record's from_id and to_id.
C4_InferredEdgesSkipped ==
  /\ \A i \in submitted : edges[i].to_id # NoId
  /\ error.at \notin {"edges", "edge_batch"}
  /\ EdgesReturned =>
       skipped_external =
         Cardinality({i \in 1..Len(edges) : edges[i].to_id = NoId})
  /\ \A x \in 1..Len(storeRels) :
       LET r == storeRels[x] IN
       /\ edgesFile[r.edge].to_id # NoId
       /\ r.from \in 1..Len(storeNodes)
       /\ r.to \in 1..Len(storeNodes)
       /\ storeNodes[r.from].id = edgesFile[r.edge].from_id
       /\ storeNodes[r.to].id = edgesFile[r.edge].to_id

\* One record was skipped as external and another became a relationship.
C4_Witness ==
  /\ EdgesReturned /\ link = "up"
  /\ skipped_external > 0
  /\ Len(storeRels) > 0

\* --------------------------------------------------------------------------
\* Claims about the extraction of one unit (ExtractSpec) and about the per-file
\* loop (AnalyzeSpec).

\* A node with this id is among the first c nodes of the unit's node list.
HasNodeBefore(id, c) == \E n \in 1..c : x_nodes[n].id = id

NodeOf(id) == CHOOSE n \in 1..Len(x_nodes) : x_nodes[n].id = id

\* C5: for every edge emitted during the extraction of a unit, the node whose id
\* is the edge's from_id, and the node whose id is its to_id when it has one,
\* was appended to the node list before the edge was appended to the edge list.
C5_NodeBeforeEdge ==
  \A e \in 1..Len(x_edges) :
    /\ HasNodeBefore(x_edges[e].from_id, x_seen[e])
    /\ x_edges[e].to_id # None => HasNodeBefore(x_edges[e].to_id, x_seen[e])

\* C6: the from_id of every Defines edge (for a class, a function or method, or a
\* variable) is the id of a node emitted earlier in the same extraction pass.
C6_DefinesParentEmitted ==
  \A e \in 1..Len(x_edges) :
    x_edges[e].type = "DEFINES" => HasNodeBefore(x_edges[e].from_id, x_seen[e])

\* A class defines a method, and the method defines a variable.
C6_Witness ==
  /\ C6_DefinesParentEmitted
  /\ \E e1, e2 \in 1..Len(x_edges) :
       /\ x_edges[e1].type = "DEFINES"
       /\ x_edges[e2].type = "DEFINES"
       /\ HasNodeBefore(x_edges[e1].from_id, x_seen[e1])
       /\ HasNodeBefore(x_edges[e2].from_id, x_seen[e2])
       /\ x_nodes[NodeOf(x_edges[e1].from_id)].type = "Class"
       /\ x_nodes[NodeOf(x_edges[e1].to_id)].type = "Method"
       /\ x_nodes[NodeOf(x_edges[e2].from_id)].type = "Method"
       /\ x_nodes[NodeOf(x_edges[e2].to_id)].type = "Variable"

ReferenceTypes == {"CALLS", "RAISES", "RETURNS", "INHERITS"}

\* C7: every Calls, Raises, Returns or Inherits edge either has a to_id that is
\* the id of a node of the same unit, or carries a to_name and no to_id.
C7_TargetResolvedOrNamed ==
  \A e \in 1..Len(x_edges) :
    x_edges[e].type \in ReferenceTypes =>
      \/ /\ x_edges[e].to_id # None
         /\ HasNodeBefore(x_edges[e].to_id, Len(x_nodes))
      \/ /\ x_edges[e].to_id = None
         /\ x_edges[e].to_name # None

\* A call resolved to a definition of the unit next to a call that is not.
C7_Witness ==
  /\ C7_TargetResolvedOrNamed
  /\ \E e1, e2 \in 1..Len(x_edges) :
       /\ x_edges[e1].type = "CALLS" /\ x_edges[e1].to_id # None
       /\ x_edges[e2].type = "CALLS" /\ x_edges[e2].to_id = None

RECURSIVE CountTypes(_, _)
CountTypes(recs, types) ==
  IF recs = <<>> THEN 0
  ELSE (IF Head(recs).type \in types THEN 1 ELSE 0) + CountTypes(Tail(recs), types)

FunctionDefsIn(tree) == Cardinality({i \in 1..Len(tree) : tree[i].k \in FunctionKinds})

\* C8: once a unit that parses has been extracted, the number of Function and
\* Method nodes emitted, and functions + methods of its counters, equal the
\* number of function definitions (sync and async, at any depth) in its tree.
C8_FunctionCountMatches ==
  (apc \in {"loop", "done"} /\ fidx > 1 /\ py_files[fidx - 1].text = "ok") =>
    /\ CountTypes(x_nodes, {"Function", "Method"}) = FunctionDefsIn(py_files[fidx - 1].tree)
    /\ stats.functions + stats.methods = FunctionDefsIn(py_files[fidx - 1].tree)

\* What the per-file loop has written so far is what the units contributed.
WrittenBy(field) == Flatten([i \in 1..Len(contrib) |-> contrib[i][field]])

AllUnitsHandled == (apc = "done" /\ py_files # <<>>) => Len(contrib) = Len(py_files)

\* C9: a unit that cannot be decoded or parsed contributes no node and no edge
\* record to the record files and raises the error count by exactly one, and the
\* units after it are still processed.
C9_FailedUnitSkipped ==
  /\ \A i \in 1..Len(contrib) :
       py_files[i].text # "ok" =>
         /\ contrib[i].nodes = <<>>
         /\ contrib[i].edges = <<>>
         /\ contrib[i].errors = (IF i = 1 THEN 0 ELSE contrib[i - 1].errors) + 1
  /\ apc # "walk" =>
       /\ nodesFile = BuildDirectoryTree(fs, exclude).nodes \o WrittenBy("nodes")
       /\ edgesFile = BuildDirectoryTree(fs, exclude).edges \o WrittenBy("edges")
  /\ AllUnitsHandled

\* A failing unit was skipped and the unit after it was extracted.
C9_Witness ==
  /\ apc = "done"
  /\ \E i \in 1..(Len(py_files) - 1) :
       /\ py_files[i].text # "ok"
       /\ py_files[i + 1].text = "ok"
       /\ contrib[i + 1].nodes # <<>>
       /\ errors = 1

IsSuffix(t, q) == Len(t) <= Len(q) /\ SubSeq(q, Len(q) - Len(t) + 1, Len(q)) = t

\* C10: when the traversal of a unit raises, extract_file still returns: what the
\* unit had emitted is written to the record files as it stands, and the loop
\* goes on to the end.
C10_PartialRecordsKept ==
  /\ (apc \in {"loop", "done"} /\ raised) =>
       /\ contrib[fidx - 1].nodes = x_nodes
       /\ contrib[fidx - 1].edges = x_edges
       /\ x_nodes # <<>>
       /\ IsSuffix(x_nodes, nodesFile)
       /\ IsSuffix(x_edges, edgesFile)
  /\ \A i \in 1..Len(contrib) : contrib[i].raised => contrib[i].nodes # <<>>
  /\ (apc = "done" /\ py_files # <<>>) =>
       (analyzed = "true" /\ Len(contrib) = Len(py_files))

\* A traversal raised after emitting edges, and the next unit was extracted.
C10_Witness ==
  /\ apc = "done"
  /\ \E i \in 1..(Len(py_files) - 1) :
       /\ contrib[i].raised
       /\ contrib[i].edges # <<>>
       /\ contrib[i + 1].nodes # <<>>
       /\ ~contrib[i + 1].raised


\* C11: when a connectivity error is raised in the load step after the connection
\* was opened, the load reports failure and the connection is closed; on every
\* exit path of the load step an opened connection has been closed.
C11_ConnectionReleased ==
  pc = "done" =>
    /\ conn # "open"
    /\ (error.exc = "ServiceUnavailable" /\ error.at # "start") =>
         (success = "false" /\ conn = "closed")


\* C13: the load step deletes store content only when the existing-data check
\* found entities and the destructive choice was explicit (force_clear, or 'yes'
\* at the prompt); otherwise the entities in the store stay and loading proceeds.
C13_ClearOnlyWhenExplicit ==
  [][/\ (\/ Len(storeNodes') < Len(storeNodes)
         \/ \E i \in 1..Len(storeNodes) : storeNodes'[i] # storeNodes[i]) =>
          (pc = "clear" /\ Len(storeNodes) > 0 /\ (force_clear \/ clear = "yes"))
     /\ (pc = "check" /\ pc' \notin {"check", "done"}
           /\ ~(force_clear \/ clear' = "yes")) =>
          (pc' = "schema" /\ storeNodes' = storeNodes)
     /\ (pc = "check" /\ Len(storeNodes) = 0) => pc' # "clear"]_vars

\* A store with entities was cleared on force_clear, or kept on the answer 'no'.
C13_Witness ==
  \/ cleared /\ force_clear /\ pc = "schema"
  \/ ~cleared /\ clear = "no" /\ pc = "schema" /\ Len(storeNodes) > 0


\* Directory i, or a directory above it, has a name of the default excluded set
\* or a name that starts with a dot.
RECURSIVE UnderExcluded(_, _)
UnderExcluded(tree, i) ==
  IF i = 1 THEN FALSE
  ELSE \/ tree[i].name \in DefaultFindExclude
       \/ StartsWithDot(tree[i].name)
       \/ UnderExcluded(tree, Parent(tree, i))

IsPrefix(t, q) == Len(t) <= Len(q) /\ SubSeq(q, 1, Len(t)) = t

\* C14: in a run without user-supplied exclusions, nothing is emitted for a
\* directory that is, or lies below, a directory of the default excluded set or a
\* dot directory: no Directory node, no Contains edge, no source unit.
C14_DefaultExclusionsApplied ==
  (apc \notin {"begin", "walk"} /\ exclude.names = {}) =>
    \A i \in 2..Len(fs) :
      UnderExcluded(fs, i) =>
        /\ \A n \in 1..Len(nodesFile) : nodesFile[n].id # stable_id(<<DirPath(fs, i)>>)
        /\ \A e \in 1..Len(edgesFile) :
             /\ edgesFile[e].from_id # stable_id(<<DirPath(fs, i)>>)
             /\ edgesFile[e].to_id # stable_id(<<DirPath(fs, i)>>)
        /\ \A u \in 1..Len(py_files) : ~IsPrefix(DirPath(fs, i) \o <<"/">>, py_files[u].path)

\* The directory a unit lies in.
DirOfUnit(u) ==
  CHOOSE i \in 1..Len(fs) :
    \E f \in 1..Len(fs[i].files) :
      PathJoin(DirPath(fs, i), fs[i].files[f].name) = py_files[u].path

ContainsEdgesTo(id) ==
  {e \in 1..Len(edgesFile) : edgesFile[e].type = "CONTAINS" /\ edgesFile[e].to_id = id}

\* C15: for every source file the pipeline processes, the walker has emitted
\* exactly one Contains edge to the id the extractor derives for that path, from
\* the file's directory (a node the walker emitted); the File node the extractor
\* emits carries that id, and the walker emits no File node.
C15_ContainsMatchesFileNode ==
  apc \notin {"begin", "walk"} =>
    /\ \A u \in 1..Len(py_files) :
         /\ Cardinality(ContainsEdgesTo(FileId(py_files[u]))) = 1
         /\ \A e \in ContainsEdgesTo(FileId(py_files[u])) :
              /\ edgesFile[e].from_id = stable_id(<<DirPath(fs, DirOfUnit(u))>>)
              /\ \E n \in 1..Len(nodesFile) :
                   /\ nodesFile[n].id = edgesFile[e].from_id
                   /\ nodesFile[n].type \in {"Repository", "Directory"}
         /\ (u <= Len(contrib) /\ contrib[u].nodes # <<>>) =>
              /\ contrib[u].nodes[1].type = "File"
              /\ contrib[u].nodes[1].id = FileId(py_files[u])
    /\ contrib = <<>> => \A n \in 1..Len(nodesFile) : nodesFile[n].type # "File"

\* A file two directories below the root was extracted.
C15_Witness ==
  /\ apc = "done"
  /\ \E u \in 1..Len(py_files) :
       /\ fs[DirOfUnit(u)].d = 2
       /\ contrib[u].nodes # <<>>
       /\ Cardinality(ContainsEdgesTo(contrib[u].nodes[1].id)) = 1


PriorBoth == {"nodes", "edges"} \subseteq prior.files

PriorRecordsPresent ==
  /\ \A i \in 1..Len(prior.nodes) : \E n \in 1..Len(nodesFile) : nodesFile[n] = prior.nodes[i]
  /\ \A i \in 1..Len(prior.edges) : \E n \in 1..Len(edgesFile) : edgesFile[n] = prior.edges[i]

FileNodesOf(path) ==
  {n \in 1..Len(nodesFile) :
     nodesFile[n].type = "File" /\ nodesFile[n].id = stable_id(<<path>>)}

\* C16: an interrupt of the per-file loop alters nothing already written, and a
\* re-run that follows it ends with a complete output: every source unit of the
\* repository that parses has its File node in the record files, once.
RerunComplete ==
  (apc = "done" /\ runs >= 2 /\ analyzed = "true") =>
    \A u \in 1..Len(FindPythonFiles(fs, exclude)) :
      FindPythonFiles(fs, exclude)[u].text = "ok" =>
        Cardinality(FileNodesOf(FindPythonFiles(fs, exclude)[u].path)) = 1

C16_ResumeCompletes ==
  [][/\ apc' = "interrupted" =>
          (nodesFile' = nodesFile /\ edgesFile' = edgesFile /\ outFiles' = outFiles)
     /\ RerunComplete']_vars

\* ------------------------------------------------- Record Sink, line by line
\* The values a record is built from, as Python holds them.
PyStr(s) == [t |-> "str", v |-> s]
PyInt(n) == [t |-> "int", v |-> n]
PyNone == [t |-> "None", v |-> 0]
PyBool(b) == [t |-> "bool", v |-> b]
PyList(items) == [t |-> "list", v |-> items]
PyDict(pairs) == [t |-> "dict", v |-> pairs]
Pair(k, val) == [key |-> k, value |-> val]

\* The tokens of a line of JSON text.
Punct(c) == [k |-> "punct", v |-> c]
StrTok(s) == [k |-> "string", v |-> s]
Lit(w) == [k |-> "literal", v |-> w]

\* json.dump writes every key of an object as a string: None becomes "null",
\* True "true", a number its digits.
JsonKey(key) ==
  CASE key.t = "str" -> StrTok(key.v)
    [] key.t = "None" -> StrTok("null")
    [] key.t = "bool" -> StrTok(IF key.v THEN "true" ELSE "false")
    [] key.t = "int" -> StrTok(ToString(key.v))

RECURSIVE Separated(_)
Separated(texts) ==
  IF texts = <<>> THEN <<>>
  ELSE IF Len(texts) = 1 THEN texts[1]
  ELSE texts[1] \o <<Punct(",")>> \o Separated(Tail(texts))

\* json.dump(item, f, ensure_ascii=False): the text of one value.
RECURSIVE JsonDump(_)
JsonDump(x) ==
  CASE x.t = "str" -> <<StrTok(x.v)>>
    [] x.t = "int" -> <<Lit(ToString(x.v))>>
    [] x.t = "None" -> <<Lit("null")>>
    [] x.t = "bool" -> <<Lit(IF x.v THEN "true" ELSE "false")>>
    [] x.t = "list" ->
         <<Punct("[")>>
           \o Separated([i \in 1..Len(x.v) |-> JsonDump(x.v[i])])
           \o <<Punct("]")>>
    [] x.t = "dict" ->
         <<Punct("{")>>
           \o Separated([i \in 1..Len(x.v) |->
                          <<JsonKey(x.v[i].key), Punct(":")>>
                            \o JsonDump(x.v[i].value)])
           \o <<Punct("}")>>

\* A number's digits read back as the number.
ParseInt(w) == CHOOSE n \in 0..9 : ToString(n) = w

\* An object's member is stored: a key met again replaces the earlier value.
PutPair(pairs, key, val) ==
  IF \E i \in 1..Len(pairs) : pairs[i].key = key
  THEN [i \in 1..Len(pairs) |->
          IF pairs[i].key = key THEN Pair(key, val) ELSE pairs[i]]
  ELSE Append(pairs, Pair(key, val))

\* json.loads: the value that starts at token i, and the token after it.
RECURSIVE ParseValue(_, _), ParseItems(_, _, _), ParseMembers(_, _, _)
ParseValue(toks, i) ==
  CASE toks[i].k = "string" -> [val |-> PyStr(toks[i].v), next |-> i + 1]
    [] toks[i].k = "literal" ->
         [val |-> CASE toks[i].v = "null" -> PyNone
                    [] toks[i].v = "true" -> PyBool(TRUE)
                    [] toks[i].v = "false" -> PyBool(FALSE)
                    [] OTHER -> PyInt(ParseInt(toks[i].v)),
          next |-> i + 1]
    [] toks[i] = Punct("[") ->
         IF toks[i + 1] = Punct("]")
         THEN [val |-> PyList(<<>>), next |-> i + 2]
         ELSE ParseItems(toks, i + 1, <<>>)
    [] toks[i] = Punct("{") ->
         IF toks[i + 1] = Punct("}")
         THEN [val |-> PyDict(<<>>), next |-> i + 2]
         ELSE ParseMembers(toks, i + 1, <<>>)

ParseItems(toks, i, acc) ==
  LET r == ParseValue(toks, i)
  IN  IF toks[r.next] = Punct(",")
      THEN ParseItems(toks, r.next + 1, Append(acc, r.val))
      ELSE [val |-> PyList(Append(acc, r.val)), next |-> r.next + 1]

ParseMembers(toks, i, acc) ==
  LET r == ParseValue(toks, i + 2)
      members == PutPair(acc, PyStr(toks[i].v), r.val)
  IN  IF toks[r.next] = Punct(",")
      THEN ParseMembers(toks, r.next + 1, members)
      ELSE [val |-> PyDict(members), next |-> r.next + 1]

JsonLoads(line) == ParseValue(line, 1).val

\* write_jsonl: the file is opened in append mode; one line of text per item.
write_jsonl(file, items) ==
  file \o [i \in 1..Len(items) |-> JsonDump(items[i])]

RECURSIVE load_jsonl(_)
\* load_jsonl: every line that is not blank is parsed, in file order.
load_jsonl(file) ==
  IF file = <<>> THEN <<>>
  ELSE IF Head(file) = <<>> THEN load_jsonl(Tail(file))
  ELSE <<JsonLoads(Head(file))>> \o load_jsonl(Tail(file))

\* The keyword arguments of a decorator call: none, k=v, or **opts, whose
\* keyword has no name (kw.arg is None).
KeywordArgs == {<<>>, <<Pair(PyStr("k"), PyStr("v"))>>, <<Pair(PyNone, PyStr("opts"))>>}

\* The Decorator node _extract_decorators appends.
DecoratorRecord(id, kwargs) ==
  PyDict(<<Pair(PyStr("id"), PyStr(id)),
           Pair(PyStr("type"), PyStr("Decorator")),
           Pair(PyStr("name"), PyStr("dec")),
           Pair(PyStr("lineno"), PyInt(1)),
           Pair(PyStr("args"), PyList(<<>>)),
           Pair(PyStr("kwargs"), PyDict(kwargs))>>)

\* The Function node _record_function appends (the fields of each kind of value).
FunctionRecord(id, is_async) ==
  PyDict(<<Pair(PyStr("id"), PyStr(id)),
           Pair(PyStr("type"), PyStr("Function")),
           Pair(PyStr("name"), PyStr("f")),
           Pair(PyStr("is_async"), PyBool(is_async)),
           Pair(PyStr("decorators"), PyList(<<PyStr("dec")>>)),
           Pair(PyStr("return_type"), PyNone),
           Pair(PyStr("lineno"), PyInt(2))>>)

SinkRecords ==
  {DecoratorRecord(id, kw) : id \in {"a", "b"}, kw \in KeywordArgs}
    \cup {FunctionRecord(id, a) : id \in {"a", "b"}, a \in BOOLEAN}

\* Neither analyze_repository nor an extractor is running.
NoRun ==
  /\ fs = FlatRepo(<<>>) /\ exclude = ExcludeList({}) /\ clean = FALSE
  /\ use_existing = "none" /\ prior = NoPrior /\ runs = 1
  /\ py_files = <<>> /\ analyzed = "none" /\ fidx = 1 /\ errors = 0
  /\ total_stats = NoStats /\ final_stats = NoFinalStats /\ contrib = <<>>
  /\ x_edges = <<>> /\ x_seen = <<>> /\ stats = NoStats
  /\ current_scope_stack = <<>> /\ current_function = None
  /\ current_class = NoClass /\ imports_map = EmptyMap
  /\ defined_names = EmptyMap /\ pos = 1 /\ frames = <<>> /\ raised = FALSE

\* Some node records are about to be written to an empty record file.
SinkInit ==
  /\ LoaderIdle
  /\ NoRun
  /\ outFiles = {}
  /\ nodesFile = <<>> /\ edgesFile = <<>>
  /\ x_nodes \in SeqsUpTo(SinkRecords, MaxRecords)
  /\ apc = "sink_write"

sinkRest ==
  <<link, conn, storeNodes, storeRels, constraints, pc, success, error,
    force_clear, clear, batch_size, edges, nk, ni, nodes_inserted, ek, ei,
    edges_inserted, skipped_external, loads, cleared, preStore, insertedRecs,
    submitted, runVars, py_files, analyzed, fidx, errors, total_stats,
    final_stats, contrib, x_edges, stats, walkVars, raised, x_seen, edgesFile>>

\* write_jsonl(nodes_file, nodes)
SinkWrite ==
  /\ apc = "sink_write"
  /\ nodesFile' = write_jsonl(nodesFile, x_nodes)
  /\ outFiles' = outFiles \cup {"nodes"}
  /\ apc' = "sink_read"
  /\ UNCHANGED <<sinkRest, x_nodes, nodes>>

\* nodes = loader.load_jsonl(nodes_file)
SinkLoad ==
  /\ apc = "sink_read"
  /\ nodes' = load_jsonl(nodesFile)
  /\ apc' = "sink_done"
  /\ UNCHANGED <<sinkRest, x_nodes, nodesFile, outFiles>>

SinkNext == SinkWrite \/ SinkLoad

SinkSpec == SinkInit /\ [][SinkNext]_vars

\* C17: N node records written by write_jsonl to an empty record file and read
\* back by load_jsonl are N records, in the same order, each equal field for
\* field to the one written.
C17_RoundTrip ==
  apc = "sink_done" =>
    /\ Len(nodes) = Len(x_nodes)
    /\ \A i \in 1..Len(x_nodes) : nodes[i] = x_nodes[i]

\* ------------------------------------------------------------- Identifiers
\* The texts a part may be: empty, a name, and texts holding the colon the
\* separator is made of.
PartTexts == {<<>>, <<"a">>, <<":">>, <<"a", ":">>, <<":", "a">>}

\* The parts of one call: every call in the program passes at least one.
PartLists == SeqsUpTo(PartTexts, MaxParts) \ {<<>>}

\* Two calls of stable_id are about to be made, each with some parts.
IdInit ==
  /\ LoaderIdle
  /\ NoRun
  /\ outFiles = {}
  /\ nodesFile = <<>> /\ edgesFile = <<>>
  /\ x_nodes \in {<<[parts |-> p, id |-> None], [parts |-> q, id |-> None]>> :
                    p \in PartLists, q \in PartLists}
  /\ apc = "ids"

\* id = stable_id(*parts)
StableIdCall(i) ==
  /\ apc = "ids"
  /\ x_nodes[i].id = None
  /\ x_nodes' = [x_nodes EXCEPT ![i].id = stable_id(x_nodes[i].parts)]
  /\ UNCHANGED <<sinkRest, nodes, nodesFile, outFiles, apc>>

IdNext == \E i \in 1..2 : StableIdCall(i)

IdSpec == IdInit /\ [][IdNext]_vars

\* C18: stable_id called twice with the same ordered sequence of parts returns
\* the same identifier (and StableIdCall leaves every other variable alone), and
\* called with two different ordered sequences of parts returns two different
\* identifiers, the digest being collision-free.
C18_StableIdInjective ==
  (x_nodes[1].id # None /\ x_nodes[2].id # None) =>
    (x_nodes[1].id = x_nodes[2].id <=> x_nodes[1].parts = x_nodes[2].parts)

\* ---------------------------------------------------- a class and its subclass
\* class A: ...
\* class B(A):
\*     def f(x, y=1):
\*         return x+y
Scenario ==
  <<ClassDef("A", <<>>),
    ClassDef("B", <<"A">>),
    At(WithDefaults(FunctionDef("f", <<"x", "y">>, <<>>), <<Str("1")>>), 2),
    At(Return(<<"x", "+", "y">>), 3)>>

\* What may stand around them: statements that define no class and that the
\* traversal gets through.
Around ==
  {st \in Statements :
     st.k # "ClassDef" /\ ~(st.k = "Assign" /\ st.value = "huge")}

\* One unit: some statements, the two classes, then at most one more statement.
ScenarioInit ==
  AnalyzeInit({<<UnitAt(1, "ok", before \o Scenario \o after)>> :
                 before \in TreesOver(Around, MaxAround),
                 after \in TreesOver(Around, 1)})

ScenarioSpec == ScenarioInit /\ [][AnalyzeNext]_vars

HasScenario(tree) ==
  \E i \in 1..(Len(tree) - 3) : SubSeq(tree, i, i + 3) = Scenario

NodesWhere(type, name) ==
  {n \in 1..Len(nodesFile) : nodesFile[n].type = type /\ nodesFile[n].name = name}

HasEdge(type, from_id, to_id, to_name) ==
  \E e \in 1..Len(edgesFile) : edgesFile[e] = Edge(type, from_id, to_id, to_name)

\* The Parameter nodes a HasParameter edge of function fn leads to.
ParametersOf(fn) ==
  {n \in 1..Len(nodesFile) :
     /\ nodesFile[n].type = "Parameter"
     /\ HasEdge("HAS_PARAMETER", fn, nodesFile[n].id, None)}

IsParameter(n, name, default, position) ==
  /\ nodesFile[n].name = name
  /\ nodesFile[n].kind = "positional"
  /\ nodesFile[n].default = default
  /\ nodesFile[n].position = position

\* C19: a unit that defines class A, then class B(A), then in B a method
\* f(x, y=1) returning x+y yields one Class node for A, one Class node for B with
\* an Inherits edge to A's id, one Method node for f, exactly two Parameter
\* nodes for f, x positional without default at position 0 and y positional with
\* default "1" at position 1, each under a HasParameter edge from f, and a
\* Returns edge from f whose expression is rendered "x + y".
C19_ClassScenario ==
  (apc = "done" /\ Len(py_files) = 1 /\ HasScenario(py_files[1].tree)) =>
    /\ Cardinality(NodesWhere("Class", Str("A"))) = 1
    /\ Cardinality(NodesWhere("Class", Str("B"))) = 1
    /\ Cardinality(NodesWhere("Method", Str("f"))) = 1
    /\ \A a \in NodesWhere("Class", Str("A")), b \in NodesWhere("Class", Str("B")) :
         HasEdge("INHERITS", nodesFile[b].id, nodesFile[a].id, None)
    /\ \A f \in NodesWhere("Method", Str("f")) :
         /\ Cardinality(ParametersOf(nodesFile[f].id)) = 2
         /\ \E p \in ParametersOf(nodesFile[f].id) : IsParameter(p, Str("x"), None, 0)
         /\ \E p \in ParametersOf(nodesFile[f].id) : IsParameter(p, Str("y"), Str("1"), 1)
         /\ HasEdge("RETURNS", nodesFile[f].id, None, <<"x", " ", "+", " ", "y">>)

\* The unit was analysed to the end and the method's Returns edge is on file.
C19_Witness ==
  /\ apc = "done"
  /\ Len(py_files) = 1 /\ HasScenario(py_files[1].tree)
  /\ \E e \in 1..Len(edgesFile) :
       edgesFile[e].type = "RETURNS" /\ edgesFile[e].to_name = <<"x", " ", "+", " ", "y">>
  /\ \E n \in 1..Len(nodesFile) :
       nodesFile[n].type = "Parameter" /\ nodesFile[n].default = Str("1")

\* ------------------------------------------------------- imports and calls
\* from os import path as p; from sys import argv as p; import numpy as np;
\* from . import n; p.join(); n(); an assignment the traversal stops at; def f().
ImportStatements ==
  {ImportFrom("os", "path", "p"), ImportFrom("sys", "argv", "p"),
   Import("numpy", "np"), ImportFrom("", "n", ""),
   Call(<<"p", "join">>), Call(<<"n">>),
   Assign("w", "huge"), FunctionDef("f", <<>>, <<>>)}

\* One unit: any tree of at most MaxImports of these nodes, or a unit with a
\* statement of every kind.
ImportInit ==
  AnalyzeInit({<<UnitAt(1, "ok", t)>> :
                 t \in TreesOver(ImportStatements, MaxImports)
                         \cup {tr \in {sh.tree : sh \in UnitShapes} : Len(tr) > 4}})

ImportSpec == ImportInit /\ [][AnalyzeNext]_vars

IsImport(node) == node.k \in {"Import", "ImportFrom"}

\* The name an import binds, and what it binds it to.
LocalName(node) == IF node.asname # "" THEN node.asname ELSE node.name

Origin(node) ==
  IF node.k = "ImportFrom" /\ node.module # ""
  THEN Dotted(<<node.module, node.name>>)
  ELSE Str(node.name)

ImportNodesAt(i) ==
  {n \in 1..Len(nodesFile) :
     nodesFile[n].type = "Import" /\ nodesFile[n].lineno = LineOf(i)}

CallEdgesAt(j) ==
  {e \in 1..Len(edgesFile) :
     edgesFile[e].type = "CALLS" /\ edgesFile[e].lineno = LineOf(j)}

\* The origin a Calls edge carries: resolved_name, or the callee itself when
\* resolution left it as it was.
Carried(edge) ==
  IF edge.resolved_name # None THEN edge.resolved_name ELSE edge.to_name

\* Node j is a call whose leading identifier is the name import i bound, and no
\* import between them bound the name again.
CallsThrough(tree, i, j) ==
  /\ j > i
  /\ tree[j].k = "Call"
  /\ tree[j].callee[1] = LocalName(tree[i])
  /\ \A m \in (i + 1)..(j - 1) :
       IsImport(tree[m]) => LocalName(tree[m]) # LocalName(tree[i])

RestOfChain(chain) ==
  IF Len(chain) > 1 THEN SubSeq(Dotted(chain), 2, Len(Dotted(chain))) ELSE <<>>

ImportRecorded(tree, i) ==
  /\ Cardinality(ImportNodesAt(i)) = 1
  /\ \A n \in ImportNodesAt(i) :
       /\ nodesFile[n].alias = Alias(tree[i].asname)
       /\ IF tree[i].k = "ImportFrom"
          THEN /\ nodesFile[n].module =
                    (IF tree[i].module # "" THEN Str(tree[i].module) ELSE <<>>)
               /\ nodesFile[n].full_name = Origin(tree[i])
          ELSE nodesFile[n].name = Origin(tree[i])

CallsResolved(tree, i) ==
  \A j \in 1..Len(tree) :
    CallsThrough(tree, i, j) =>
      \E e \in CallEdgesAt(j) :
        Carried(edgesFile[e]) = Origin(tree[i]) \o RestOfChain(tree[j].callee)

\* C20: every import that binds a local name has exactly one Import node with its
\* alias, module and full origin name, and every later call of the unit that
\* starts with that name has a Calls edge carrying the origin followed by the
\* rest of the dotted chain (p.join after 'from os import path as p' carries
\* os.path.join).
C20_ImportsResolveCalls ==
  (apc = "done" /\ Len(py_files) = 1) =>
    \A i \in 1..Len(py_files[1].tree) :
      IsImport(py_files[1].tree[i]) =>
        /\ ImportRecorded(py_files[1].tree, i)
        /\ CallsResolved(py_files[1].tree, i)

\* --------------------------------------------------------------------------
\* Claims about decorators, kinds, inheritance and calls (ExtractSpec).

\* C21: the Decorates edge emitted for a named decorator of a function definition
\* has from_id equal to the id of the Decorator node emitted for that decorator
\* and to_id equal to the id of the function's node.
C21_DecoratesJoinsDecorator ==
  \A e \in 1..Len(x_edges) :
    x_edges[e].type = "DECORATES" =>
      /\ \E n \in 1..Len(x_nodes) :
           /\ x_nodes[n].type = "Decorator"
           /\ x_nodes[n].id = x_edges[e].from_id
      /\ \E n \in 1..Len(x_nodes) :
           /\ x_nodes[n].type \in {"Function", "Method"}
           /\ x_nodes[n].id = x_edges[e].to_id

\* The type of the node a Defines edge to the node with this id comes from.
DefinedFrom(id) ==
  {x_nodes[NodeOf(x_edges[e].from_id)].type :
     e \in {d \in 1..Len(x_edges) :
              /\ x_edges[d].type = "DEFINES"
              /\ x_edges[d].to_id = id
              /\ HasNodeBefore(x_edges[d].from_id, Len(x_nodes))}}

\* C22: a function definition is recorded with kind Method exactly when the
\* scope its Defines edge comes from is a Class node, and with kind Function in
\* every other case.
C22_MethodIffInClass ==
  \A n \in 1..Len(x_nodes) :
    x_nodes[n].type \in {"Function", "Method"} =>
      (x_nodes[n].type = "Method" <=> DefinedFrom(x_nodes[n].id) = {"Class"})

\* ------------------------------------------------------------------ metrics
\* What a function's subtree holds: statements, and boolean expressions
\* [k = "BoolOp", op, values], values the number of operands.
Stmt(kind) == [k |-> kind, op |-> "", values |-> 0]

BoolOp(op, values) == [k |-> "BoolOp", op |-> op, values |-> values]

BodyNodes ==
  {Stmt(kind) : kind \in {"If", "For", "While", "ExceptHandler", "With", "Assert",
                          "Return"}}
    \cup {BoolOp("And", 2), BoolOp("Or", 3)}

\* ast.walk: every node of the subtree; a BoolOp's operator (ast.And, ast.Or) is
\* a node of its own, yielded after the BoolOp.
RECURSIVE AstWalk(_)
AstWalk(body) ==
  IF body = <<>> THEN <<>>
  ELSE (IF Head(body).k = "BoolOp"
        THEN <<Head(body), Stmt(Head(body).op)>>
        ELSE <<Head(body)>>) \o AstWalk(Tail(body))

BranchKinds == {"If", "For", "While", "And", "Or", "ExceptHandler", "With", "Assert"}

\* calculate_complexity
RECURSIVE Complexity(_)
Complexity(walked) ==
  IF walked = <<>> THEN 1
  ELSE Complexity(Tail(walked))
         + (IF Head(walked).k \in BranchKinds THEN 1
            ELSE IF Head(walked).k = "BoolOp" THEN Head(walked).values - 1
            ELSE 0)

calculate_complexity(body) == Complexity(AstWalk(body))

\* A function with some body is about to be recorded; complexity 0: not yet.
MetricsInit ==
  /\ LoaderIdle
  /\ NoRun
  /\ outFiles = {}
  /\ nodesFile = <<>> /\ edgesFile = <<>>
  /\ x_nodes \in {<<[type |-> "Function", body |-> b, complexity |-> 0]>> :
                    b \in SeqsUpTo(BodyNodes, MaxBody)}
  /\ apc = "metrics"

\* _compute_metrics: complexity=calculate_complexity(node)
ComputeMetrics ==
  /\ apc = "metrics"
  /\ x_nodes' = [x_nodes EXCEPT ![1].complexity = calculate_complexity(x_nodes[1].body)]
  /\ apc' = "recorded"
  /\ UNCHANGED <<sinkRest, nodes, nodesFile, outFiles>>

\* The function node is written with the other records of the unit.
WriteMetrics ==
  /\ apc = "recorded"
  /\ nodesFile' = WriteJsonl(nodesFile, x_nodes)
  /\ outFiles' = outFiles \cup {"nodes"}
  /\ apc' = "done"
  /\ UNCHANGED <<sinkRest, nodes, x_nodes>>

MetricsNext == ComputeMetrics \/ WriteMetrics

MetricsSpec == MetricsInit /\ [][MetricsNext]_vars

CountOfKinds(body, kinds) ==
  Cardinality({i \in 1..Len(body) : body[i].k \in kinds})

RECURSIVE ExtraOperands(_)
ExtraOperands(body) ==
  IF body = <<>> THEN 0
  ELSE ExtraOperands(Tail(body))
         + (IF Head(body).k = "BoolOp" THEN Head(body).values - 1 ELSE 0)

\* C23: the recorded cyclomatic complexity of a function is 1, plus one for each
\* conditional, loop, exception handler, context manager and assert of its
\* subtree, plus (operands - 1) for each boolean expression, and nothing else.
C23_ComplexityAsDefined ==
  \A n \in 1..Len(nodesFile) :
    nodesFile[n].complexity =
      1 + CountOfKinds(nodesFile[n].body,
                       {"If", "For", "While", "ExceptHandler", "With", "Assert"})
        + ExtraOperands(nodesFile[n].body)

\* ------------------------------------------------------------- inheritance
\* class A: ...; class A(A): ...; class B(A, C): ...; def A(): ...; def g(): ...
ClassStatements ==
  {ClassDef("A", <<>>), ClassDef("A", <<"A">>), ClassDef("B", <<"A", "C">>),
   FunctionDef("A", <<>>, <<>>), FunctionDef("g", <<>>, <<>>)}

\* One unit: any tree of at most MaxClasses of these nodes, or a unit with a
\* statement of every kind.
InheritInit ==
  AnalyzeInit({<<UnitAt(1, "ok", t)>> :
                 t \in TreesOver(ClassStatements, MaxClasses)
                         \cup {tr \in {sh.tree : sh \in UnitShapes} : tr # <<>>}})

InheritSpec == InheritInit /\ [][AnalyzeNext]_vars

\* The name is the name of a class or function definition in front of node i.
DefinedEarlier(tree, name, i) ==
  \E m \in 1..(i - 1) : tree[m].k \in DefKinds /\ tree[m].name = name

\* The Inherits edges on file that leave this class and stand for this base: they
\* name it, or lead to a node of that name.
InheritsEdgesFor(class_id, base) ==
  {e \in 1..Len(edgesFile) :
     /\ edgesFile[e].type = "INHERITS"
     /\ edgesFile[e].from_id = class_id
     /\ \/ edgesFile[e].to_name = Str(base)
        \/ \E n \in 1..Len(nodesFile) :
             /\ nodesFile[n].id = edgesFile[e].to_id
             /\ nodesFile[n].name = Str(base)}

\* C24: for each base name of a class definition exactly one Inherits edge leaves
\* the class; it carries the id of a node exactly when the base name was defined
\* earlier in the unit than the class definition, and otherwise it carries only
\* the name.
C24_InheritsResolvedIffEarlier ==
  (apc = "done" /\ Len(py_files) = 1) =>
    \A i \in 1..Len(py_files[1].tree) :
      py_files[1].tree[i].k = "ClassDef" =>
        \A j \in 1..Len(py_files[1].tree[i].bases) :
          LET base == py_files[1].tree[i].bases[j]
              found == InheritsEdgesFor(ClassId(py_files[1], i, py_files[1].tree[i]),
                                        base)
          IN  /\ Cardinality(found) = 1
              /\ \A e \in found :
                   IF DefinedEarlier(py_files[1].tree, base, i)
                   THEN edgesFile[e].to_id # None
                   ELSE edgesFile[e].to_id = None /\ edgesFile[e].to_name = Str(base)

\* ------------------------------------------------------------------- calls
\* The node the body of which node j stands in: the nearest node in front of it
\* that is one level up; 0 for a statement of the module body.
ParentOf(tree, j) ==
  IF tree[j].d = 1 THEN 0
  ELSE CHOOSE m \in 1..(j - 1) :
         /\ tree[m].d = tree[j].d - 1
         /\ \A q \in (m + 1)..(j - 1) : tree[q].d >= tree[j].d

\* The id of the scope node j is visited in: its enclosing definition's, or the
\* File node's.
ScopeAt(unit, tree, j) ==
  LET m == ParentOf(tree, j) IN
    IF m = 0 THEN FileId(unit)
    ELSE IF tree[m].k = "ClassDef" THEN ClassId(unit, m, tree[m])
    ELSE FunctionId(unit, m, tree[m])

\* Node m gives the name a definition: a class, a function, or a variable whose
\* assignment the traversal gets through.
DefinesName(tree, m, name) ==
  \/ tree[m].k \in DefKinds /\ tree[m].name = name
  \/ /\ tree[m].k = "Assign" /\ tree[m].value # "huge"
     /\ \E j \in 1..Len(Targets(tree[m])) : Targets(tree[m])[j] = name

\* The id node m gives the name.
DefinitionId(unit, tree, m, name) ==
  IF tree[m].k = "ClassDef" THEN ClassId(unit, m, tree[m])
  ELSE IF tree[m].k = "Assign" THEN VarId(ScopeAt(unit, tree, m), name, m)
  ELSE FunctionId(unit, m, tree[m])

\* The definitions of the name in front of node j.
Earlier(tree, j, name) == {m \in 1..(j - 1) : DefinesName(tree, m, name)}

Latest(S) == CHOOSE m \in S : \A q \in S : q <= m

\* The call (node j of the unit) this Calls edge was emitted for.
CallOf(unit, edge) == CHOOSE j \in 1..Len(unit.tree) : LineOf(j) = edge.lineno

CallEdgeAsClaimed(unit, edge) ==
  LET j == CallOf(unit, edge)
      first_part == unit.tree[j].callee[1]
      earlier == Earlier(unit.tree, j, first_part)
  IN  /\ edge.from_id = ScopeAt(unit, unit.tree, j)
      /\ edge.to_name = Dotted(unit.tree[j].callee)
      /\ (edge.to_id # None) <=> (earlier # {})
      /\ earlier # {} =>
           edge.to_id = DefinitionId(unit, unit.tree, Latest(earlier), first_part)
      /\ edge.inferred <=> (edge.to_id = None)

MayLoadAlways(result) == TRUE

\* main: if not success: sys.exit(1), then if not args.skip_neo4j.
MayLoad(result) == result = "true"

\* A record of nodes.jsonl as batch_insert_nodes reads it.
NodeLine(rec) ==
  [form |-> "ok", kind |-> rec.type, id |-> ToString(rec.id), bad |-> FALSE]

\* A record of edges.jsonl as batch_insert_edges reads it: 'to_id' in e, or not.
EdgeLine(rec) ==
  [type |-> rec.type, from_id |-> ToString(rec.from_id),
   to_id |-> IF rec.to_id = None THEN NoId ELSE ToString(rec.to_id)]

LinesOf(file, line(_)) == [i \in 1..Len(file) |-> line(file[i])]

\* What the store holds when the loader connects: nothing, or an earlier load.
FoundStores == {<<>>, <<[kind |-> "File", id |-> "old"]>>}

\* main, from the return of analyze_repository to the call of load_to_neo4j,
\* and load_to_neo4j up to the construction of the loader.
StartLoader ==
  /\ apc = "done"
  /\ pc = "idle"
  /\ MayLoad(analyzed)
  /\ {"nodes", "edges"} \subseteq outFiles
  /\ pc' = "start"
  /\ nodesFile' = LinesOf(nodesFile, NodeLine)
  /\ edgesFile' = LinesOf(edgesFile, EdgeLine)
  /\ storeNodes' \in FoundStores
  /\ batch_size' \in 1..MaxBatch
  /\ UNCHANGED <<link, conn, storeRels, constraints, success, error, force_clear,
                 clear, loads, nodes, edges, nodeLoopVars, edgeLoopVars, cleared,
                 analyzeVars, extractorVars>>

MainInit == AnalyzeInit(UnitLists(UnitShapes, MaxFiles - 1))

MainNext ==
  \/ AnalyzeNext
  \/ StartLoader
  \/ OneLoadNext

MainSpec == MainInit /\ [][MainNext]_vars

\* What a change of the loader's position says about where it was.
ComesFrom(at, before) == (pc' = at /\ pc # at) => pc \in before

\* C26: the walker's records are in the record files before any unit is
\* extracted; the loader starts only after analyze_repository returned True;
\* inside the loader the existing-data check precedes schema setup, schema setup
\* precedes the first node insertion, and every node type has had its batches
\* attempted before the first edge batch is submitted.
C26_StepsInOrder ==
  [][/\ extractorVars' # extractorVars =>
          LET dir == BuildDirectoryTree(fs, exclude) IN
            /\ IsPrefix(dir.nodes, nodesFile)
            /\ IsPrefix(dir.edges, edgesFile)
     /\ (pc = "idle" /\ pc' # "idle") => (apc = "done" /\ analyzed = "true")
     /\ ComesFrom("check", {"start"})
     /\ ComesFrom("schema", {"check", "clear"})
     /\ ComesFrom("clear", {"check"})
     /\ ComesFrom("read_nodes", {"schema"})
     /\ ComesFrom("read_edges", {"read_nodes"})
     /\ ComesFrom("nodes", {"read_edges"})
     /\ ComesFrom("node_batch", {"nodes"})
     /\ ComesFrom("edges", {"nodes", "node_batch"})
     /\ ComesFrom("edge_batch", {"edges"})
     /\ storeNodes' # storeNodes => pc \in {"idle", "clear", "node_batch"}
     /\ (submitted' # submitted \/ storeRels' # storeRels) =>
          (pc \in {"clear", "edge_batch"} /\ (pc = "edge_batch" => nk > Len(type_order)))
    ]_vars

\* A whole run: analysis succeeded, the load returned True and created
\* relationships.
C26_Witness ==
  /\ analyzed = "true"
  /\ pc = "done"
  /\ success = "true"
  /\ storeNodes # <<>>
  /\ storeRels # <<>>

\* ------------------------------------------------------------ statistics
\* The kind of record each counter of the statistics summary counts.
CountedKind ==
  [functions |-> "Function", methods |-> "Method", classes |-> "Class",
   imports |-> "Import", variables |-> "Variable", decorators |-> "Decorator",
   calls |-> "CALLS"]

OfType(recs, type) == Cardinality({i \in 1..Len(recs) : recs[i].type = type})

\* The records a counter stands for among those of one unit.
Emitted(key, ns, es) ==
  IF key = "calls" THEN OfType(es, CountedKind[key]) ELSE OfType(ns, CountedKind[key])

\* The same, summed over the units whose records were written.
RECURSIVE EmittedOver(_, _)
EmittedOver(key, units) ==
  IF units = <<>> THEN 0
  ELSE Emitted(key, Head(units).nodes, Head(units).edges) + EmittedOver(key, Tail(units))

\* C27: each per-unit counter equals the number of records of its kind emitted
\* for the unit; each total equals the sum of those counters over the units whose
\* records were written; files_processed + files_with_errors = total_files.
C27_StatisticsAreCounts ==
  /\ \A key \in StatKeys :
       /\ stats[key] = Emitted(key, x_nodes, x_edges)
       /\ total_stats[key] = EmittedOver(key, contrib)
  /\ analyzed = "true" =>
       /\ \A key \in StatKeys : final_stats.totals[key] = EmittedOver(key, contrib)
       /\ final_stats.files_processed + final_stats.files_with_errors
            = final_stats.total_files
       /\ final_stats.total_files = Len(py_files)

\* A finished run over two units: one failed to parse, the other raised half
\* way and its records, a function and a variable among them, were written.
C27_Witness ==
  /\ analyzed = "true"
  /\ final_stats.files_with_errors = 1
  /\ final_stats.files_processed = 1
  /\ final_stats.totals.functions > 0
  /\ final_stats.totals.variables > 0
  /\ \E i \in 1..Len(contrib) : contrib[i].raised /\ contrib[i].nodes # <<>>

\* -------------------------------------------------------------- scope stack
\* The definitions that enclose node j, outermost first.
RECURSIVE Enclosing(_, _)
Enclosing(tree, j) ==
  LET m == ParentOf(tree, j) IN
    IF m = 0 THEN <<>> ELSE Append(Enclosing(tree, m), m)

\* The extractor's context just before node j is visited, read off the tree: the
\* File node's id under the ids of the enclosing definitions, the innermost
\* enclosing function's id and the innermost enclosing class's name.
ContextAt(unit, tree, j) ==
  LET enc == Enclosing(tree, j)
      fns == SelectSeq(enc, LAMBDA m : tree[m].k \in FunctionKinds)
      cls == SelectSeq(enc, LAMBDA m : tree[m].k = "ClassDef")
  IN [stack |-> <<FileId(unit)>> \o
                  [q \in 1..Len(enc) |->
                     DefinitionId(unit, tree, enc[q], tree[enc[q]].name)],
      function |-> IF fns = <<>> THEN None
                   ELSE FunctionId(unit, fns[Len(fns)], tree[fns[Len(fns)]]),
      class |-> IF cls = <<>> THEN NoClass ELSE tree[cls[Len(cls)]].name]

Context ==
  [stack |-> current_scope_stack, function |-> current_function,
   class |-> current_class]

\* The definition whose visit returns next: the last one in front of pos at the
\* depth of the innermost call in progress.
Returning ==
  CHOOSE j \in 1..(pos - 1) :
    /\ Tree[j].k \in DefKinds /\ Tree[j].d = Top.d
    /\ \A q \in (j + 1)..(pos - 1) : ~(Tree[q].k \in DefKinds /\ Tree[q].d = Top.d)

\* While no exception was raised: a node is visited in the context of its
\* enclosing definitions, whose innermost id is on top of the stack, and at the
\* end of the traversal the stack holds the File node's id alone.
ScopesFollowTree ==
  (apc = "visit" /\ ~raised) =>
    /\ (pos <= Len(Tree) /\ (IF frames = <<>> THEN TRUE ELSE Cur.d > Top.d)) =>
         /\ Context = ContextAt(Unit, Tree, pos)
         /\ current_scope_stack[Len(current_scope_stack)] = ScopeAt(Unit, Tree, pos)
    /\ (pos > Len(Tree) /\ frames = <<>>) =>
         current_scope_stack = <<FileId(Unit)>>

\* C28: in a unit's extraction in which nothing is raised, the top of the scope
\* stack is the enclosing definition's id while its body is visited; when the
\* visit of a definition returns, the stack, current_class and current_function
\* are what they were just before it was entered; at the end of the traversal the
\* stack is exactly the File node's id.
C28_ScopeDiscipline ==
  [][/\ ScopesFollowTree
     /\ ScopesFollowTree'
     /\ (apc = "visit" /\ ~raised /\ Len(frames') < Len(frames)) =>
          Context' = ContextAt(Unit, Tree, Returning)
    ]_vars

\* The visit of a function nested in another definition has just returned.
C28_Witness ==
  /\ apc = "visit"
  /\ ~raised
  /\ Len(frames) = 1
  /\ pos > Len(Tree)
  /\ Len(Tree) > 1
  /\ Tree[Len(Tree)].k \in FunctionKinds
  /\ Tree[Len(Tree)].d = 2

\* ------------------------------------------------------------ distinct ids
\* x = 1; x = x = 1; x = y = 1; def f(x); def x(); class x.
TargetStatements ==
  {Assign("x", "const"), AssignChain(<<"x", "x">>, "const"),
   AssignChain(<<"x", "y">>, "const"), FunctionDef("f", <<"x">>, <<>>),
   FunctionDef("x", <<>>, <<>>), ClassDef("x", <<>>)}

\* One unit: any tree of at most MaxStmts of these nodes, or a unit with a
\* statement of every kind.
TargetInit ==
  AnalyzeInit({<<UnitAt(1, "ok", t)>> :
                 t \in TreesOver(TargetStatements, MaxStmts)
                         \cup {tr \in {sh.tree : sh \in UnitShapes} : Len(tr) > MaxStmts + 1}})

TargetSpec == TargetInit /\ [][AnalyzeNext]_vars

\* C29: the node records one extraction pass emits for a unit have pairwise
\* distinct ids.
C29_NodeIdsDistinct ==
  \A i, j \in 1..Len(x_nodes) : x_nodes[i].id = x_nodes[j].id => i = j

\* The same, for units without a chained assignment that names a target twice.
NodeIdsDistinctOtherwise ==
  (apc = "visit" /\ \A m \in 1..Len(Tree) :
      Tree[m].k = "Assign" =>
        \A p, q \in 1..Len(Targets(Tree[m])) :
          Targets(Tree[m])[p] = Targets(Tree[m])[q] => p = q)
    => C29_NodeIdsDistinct

\* ----------------------------------------------------------- edge accounting
\* The relationships the store holds for edge record i of the load.
RelsFor(i) == {p \in 1..Len(storeRels) : storeRels[p].edge = i}

\* C30: after batch_insert_edges completed in a pipeline run without a store
\* error, every edge record read was either created as exactly one relationship
\* or counted as skipped, and inserted + skipped = the number of edge records.
C30_EdgesAccounted ==
  (pc = "done" /\ success = "true" /\ link = "up") =>
    /\ edges_inserted + skipped_external = Len(edges)
    /\ \A i \in 1..Len(edges) :
         IF edges[i].to_id = NoId THEN RelsFor(i) = {}
         ELSE Cardinality(RelsFor(i)) = 1

=============================================================================
